---- MODULE Spec2Model ----
(***************************************************************************)
(* OuterControl: access-policy evaluation and session-state engine.        *)
(*                                                                         *)
(* Three engine variants of the background service worker are modelled:    *)
(*   "v3"  the IndexedDB engine (sessions, quotas, lunchUsed,              *)
(*         streamingFirstAccess, usage as plain milliseconds),             *)
(*   "v4"  the IndexedDB engine with structured usage records, view        *)
(*         sessions, the shared 'streaming' session key and evening block, *)
(*   "sl"  the chrome.storage.local engine (one state blob, no ready gate).*)
(* Time is in milliseconds of local wall-clock time; instant 0 is a local  *)
(* Sunday 00:00, so that hour-of-day, day-of-week and the day key are      *)
(* arithmetic on `now`.                                                    *)
(***************************************************************************)
EXTENDS Integers, Sequences, FiniteSets, TLC

VARIABLES
    engine,      \* which engine variant this run executes
    scenario,    \* the hosts this run's traffic is about
    now,         \* Date.now()
    spent,       \* what the run has used of its bounds: [ticks, kills, faults]
    proc,        \* process lifecycle: "cold", "loading", "stuck", "ready"
    storageOk,   \* FALSE while the next durable write is going to fail
    sessions,    \* in-memory sessions: key -> [type, startedAt, expiresAt]
    quotas,      \* in-memory quotas.hn: sequence of visit timestamps
    lunchUsed,   \* in-memory lunchUsed: set of day keys marked true
    sfa,         \* in-memory streamingFirstAccess: day key -> timestamp
    usage,       \* in-memory usage: day key -> (host -> ms | record)
    viewSessions,\* in-memory viewSessions (v4): host -> timestamp
    health,      \* sl engine: [stateHealthy, unsavedChanges]
    alarms,      \* pending session alarms: key -> when
    midnightAt,  \* pending 'midnight' alarm: when, or None
    saveAlarm,   \* periodic 'saveUsage' alarm registered
    idbState,    \* durable 'state' store (IDB engines) / state blob (sl)
    idbUsage,    \* durable 'usage' store (IDB engines): day key -> data
    lastRec,     \* ghost: host -> instant of the last recordUsage since the last rollover
    snap,        \* ghost: what was persisted at the last teardown, until the engine acts again
    pageLunch,   \* blocked page: day key of the last response with lunchAvailable, or None
    ev,          \* the last event handled, with its arguments and response
    rHost,       \* resolver check: the host string classified
    rOut,        \* resolver check: results of the two resolvers
    boot,        \* startup sequence: ready, readyPromise and every caller's position
    saver,       \* save serialisation: the flag, the retry timer and every save's position
    roll,        \* one day's usage counter in memory and in the usage store, with its readers and writers
    mig,         \* migration check: a persisted state, what loading makes of it, what migrateState makes of it
    filer,       \* storage.local engine: the health flags, the badge and the file-save retries
    dispatched,  \* session alarms the browser has fired whose onAlarm handler has not run yet
    tracker      \* content script of one tab: its counters, its reports in flight, the engine's total

vars == <<engine, scenario, now, spent, proc, storageOk, sessions, quotas,
          lunchUsed, sfa, usage, viewSessions, health, alarms, midnightAt,
          saveAlarm, idbState, idbUsage, lastRec, snap, pageLunch, ev, rHost, rOut,
          boot, saver, roll, mig, filer, dispatched, tracker>>

engineVars == <<engine, scenario, now, spent, proc, storageOk, sessions, quotas,
          lunchUsed, sfa, usage, viewSessions, health, alarms, midnightAt,
          saveAlarm, idbState, idbUsage, lastRec, snap, pageLunch, ev>>

-----------------------------------------------------------------------------
(* Time constants                                                          *)

SEC == 1000
MIN == 60 * SEC
HOUR == 60 * MIN
DAY == 24 * HOUR
VIEW_SESSION_TIMEOUT == 60 * SEC

None == -1

getHours(t) == (t \div HOUR) % 24
getDay(t) == (t \div DAY) % 7
getDateKey(t) == t \div DAY

-----------------------------------------------------------------------------
(* Generic helpers for JS objects modelled as functions                    *)

Empty == [k \in {} |-> 0]
Has(f, k) == k \in DOMAIN f
Put(f, k, v) == [x \in (DOMAIN f) \cup {k} |-> IF x = k THEN v ELSE f[x]]
Del(f, k) == [x \in (DOMAIN f) \ {k} |-> f[x]]

-----------------------------------------------------------------------------
(* Host names as character sequences                                        *)

Dot == "."
s_reddit == <<"r","e","d","d","i","t",".","c","o","m">>
s_twitter == <<"t","w","i","t","t","e","r",".","c","o","m">>
s_x == <<"x",".","c","o","m">>
s_youtube == <<"y","o","u","t","u","b","e",".","c","o","m">>
s_disneyplus == <<"d","i","s","n","e","y","p","l","u","s",".","c","o","m">>
s_paramountplus == <<"p","a","r","a","m","o","u","n","t","p","l","u","s",".","c","o","m">>
s_max == <<"m","a","x",".","c","o","m">>
s_hbomax == <<"h","b","o","m","a","x",".","c","o","m">>
s_netflix == <<"n","e","t","f","l","i","x",".","c","o","m">>
s_hn == <<"n","e","w","s",".","y","c","o","m","b","i","n","a","t","o","r",".","c","o","m">>
s_example == <<"e","x","a","m","p","l","e",".","c","o","m">>
s_www == <<"w","w","w",".">>

\* POLICIES, in insertion order: group name and its hosts
PolicyHosts ==
    << [group |-> "social", hosts |-> <<s_reddit, s_twitter, s_x>>],
       [group |-> "streaming",
        hosts |-> <<s_youtube, s_disneyplus, s_paramountplus, s_max, s_hbomax, s_netflix>>],
       [group |-> "hackerNews", hosts |-> <<s_hn>>] >>

NoGroup == "null"

RECURSIVE SetEntries(_, _, _, _)
SetEntries(map, group, hosts, i) ==
    IF i > Len(hosts) THEN map
    ELSE SetEntries(Put(map, hosts[i], group), group, hosts, i + 1)

RECURSIVE BuildFrom(_, _)
BuildFrom(map, p) ==
    IF p > Len(PolicyHosts) THEN map
    ELSE BuildFrom(SetEntries(map, PolicyHosts[p].group, PolicyHosts[p].hosts, 1), p + 1)

\* buildDomainMap(POLICIES): domain -> group, later entries overwrite
buildDomainMap == BuildFrom(Empty, 1)

domainMap == buildDomainMap

\* host.split('.')
RECURSIVE SplitFrom(_, _, _)
SplitFrom(s, i, cur) ==
    IF i > Len(s) THEN <<cur>>
    ELSE IF s[i] = Dot THEN <<cur>> \o SplitFrom(s, i + 1, <<>>)
    ELSE SplitFrom(s, i + 1, Append(cur, s[i]))

split(s) == SplitFrom(s, 1, <<>>)

\* parts.slice(i).join('.')   (i is the 0-based index of the first part kept)
RECURSIVE JoinFrom(_, _)
JoinFrom(parts, j) ==
    IF j > Len(parts) THEN <<>>
    ELSE IF j = Len(parts) THEN parts[j]
    ELSE parts[j] \o <<Dot>> \o JoinFrom(parts, j + 1)

sliceJoin(parts, i) == JoinFrom(parts, i + 1)

\* the 0-based indices the subdomain loop visits: for (i = 1; i < parts.length - 1; i++)
M_LoopIndices_ToEnd(parts) == 1 .. (Len(parts) - 1)
LoopIndices(parts) == 1 .. (Len(parts) - 2)

\* the suffixes lookupGroup tries, in loop order
TriedSuffixes(host) ==
    LET parts == split(host)
    IN  [n \in 1 .. Cardinality(LoopIndices(parts)) |-> sliceJoin(parts, n)]

RECURSIVE FirstHit(_, _)
FirstHit(sufs, n) ==
    IF n > Len(sufs) THEN NoGroup
    ELSE IF Has(domainMap, sufs[n]) THEN domainMap[sufs[n]]
    ELSE FirstHit(sufs, n + 1)

\* lookupGroup(host, domainMap): the group, or NoGroup for null
lookupGroup(host) ==
    IF Has(domainMap, host) THEN domainMap[host]
    ELSE FirstHit(TriedSuffixes(host), 1)

\* s.endsWith(t)
endsWith(s, t) ==
    /\ Len(t) <= Len(s)
    /\ SubSeq(s, Len(s) - Len(t) + 1, Len(s)) = t

\* host === domain || host.endsWith('.' + domain)
M_DomainMatches_NoDot(host, domain) == host = domain \/ endsWith(host, domain)
DomainMatches(host, domain) == host = domain \/ endsWith(host, <<Dot>> \o domain)

RECURSIVE ScanHosts(_, _, _)
ScanHosts(host, hosts, i) ==
    IF i > Len(hosts) THEN FALSE
    ELSE DomainMatches(host, hosts[i]) \/ ScanHosts(host, hosts, i + 1)

RECURSIVE ScanPolicies(_, _)
ScanPolicies(host, p) ==
    IF p > Len(PolicyHosts) THEN NoGroup
    ELSE IF ScanHosts(host, PolicyHosts[p].hosts, 1) THEN PolicyHosts[p].group
    ELSE ScanPolicies(host, p + 1)

\* getDomainGroup(host) of the storage.local engine
getDomainGroup(host) == ScanPolicies(host, 1)


-----------------------------------------------------------------------------
(* Policy table (POLICIES) of each engine                                   *)

Hosts == {"www.reddit.com", "youtube.com", "www.netflix.com", "news.ycombinator.com", "example.com"}

\* the characters of each host this model sends requests for
Chars(h) ==
    CASE h = "www.reddit.com" -> s_www \o s_reddit
      [] h = "youtube.com" -> s_youtube
      [] h = "www.netflix.com" -> s_www \o s_netflix
      [] h = "news.ycombinator.com" -> s_hn
      [] h = "example.com" -> s_example
      [] h = "__lunch__" -> <<"_","_","l","u","n","c","h","_","_">>
      [] OTHER -> <<>>

WorkDays == {1, 2, 3, 4, 5}

PoliciesV3 ==
    [social |-> [graceDurationMs |-> 5 * MIN, carriesGrace |-> TRUE],
     streaming |-> [workStart |-> 9, workEnd |-> 18, lunchStart |-> 12, lunchEnd |-> 14,
                    lunchDurationMs |-> 30 * MIN, graceDurationMs |-> 5 * MIN],
     hackerNews |-> [maxVisits |-> 3, windowMs |-> 3 * HOUR, visitDurationMs |-> 5 * MIN,
                     graceDurationMs |-> 5 * MIN]]

PoliciesV4 ==
    [social |-> [graceDurationMs |-> 5 * MIN, carriesGrace |-> TRUE],
     streaming |-> [workStart |-> 9, workEnd |-> 17, lunchStart |-> 11, lunchEnd |-> 15,
                    lunchDurationMs |-> 45 * MIN, maxLunchSessions |-> 3,
                    graceDurationMs |-> 5 * MIN, eveningGraceDurationMs |-> 30 * MIN],
     hackerNews |-> [workStart |-> 9, workEnd |-> 17, graceDurationMs |-> 5 * MIN]]

PoliciesSL ==
    [social |-> [graceDurationMs |-> 3 * MIN, carriesGrace |-> FALSE],
     streaming |-> [workStart |-> 9, workEnd |-> 18, lunchStart |-> 12, lunchEnd |-> 14,
                    lunchDurationMs |-> 30 * MIN, graceDurationMs |-> 5 * MIN],
     hackerNews |-> [maxVisits |-> 3, windowMs |-> 3 * HOUR, visitDurationMs |-> 5 * MIN,
                     graceDurationMs |-> 5 * MIN]]

POLICIES(e) == IF e = "v4" THEN PoliciesV4 ELSE IF e = "sl" THEN PoliciesSL ELSE PoliciesV3

\* the classification each engine's evaluateAccess uses
resolve(e, h) == IF e = "sl" THEN getDomainGroup(Chars(h)) ELSE lookupGroup(Chars(h))
groupOf == [e \in {"v3", "v4", "sl"} |-> [h \in Hosts |-> resolve(e, h)]]
Classify(e, h) == IF h \in Hosts THEN groupOf[e][h] ELSE resolve(e, h)


-----------------------------------------------------------------------------
(* Bounds of the model                                                      *)

MaxTicks == 3          \* clock advances per run
MaxUsageSec == 10      \* seconds recorded per host and day
MaxLunchCount == 4     \* lunch sessions counted per day (v4 lunchCount)
MaxQuotaLen == 4       \* entries of quotas.hn
MaxTempAccess == 1     \* temporary-access requests counted per host and day
MaxKills == 1          \* service-worker teardowns per run
MaxFaults == 1         \* failing durable writes per run

At(d, h, m) == d * DAY + h * HOUR + m * MIN

\* a run starts on a Monday noon: work hours, inside every lunch window
StartTimes == {At(1, 12, 0)}

Engines == {"v3", "v4", "sl"}

\* a run exercises one part of the engine: the hosts it sends requests for and the
\* steps its clock advances in
Workload(hosts, steps) == [hosts |-> hosts, steps |-> steps]
SocialRun == Workload({"www.reddit.com"}, {5 * MIN, 12 * HOUR})
StreamingRun == Workload({"youtube.com"}, {30 * MIN, 12 * HOUR})
QuotaRun == Workload({"news.ycombinator.com"}, {5 * MIN, 3 * HOUR})
UsageRun == Workload({"example.com"}, {30 * SEC, 12 * HOUR})

LazyRun == Workload({"youtube.com"}, {HOUR, 23 * HOUR})

SharedRun == Workload({"youtube.com"}, {5 * MIN, 30 * MIN})
GroupsRun == Workload({"www.reddit.com", "youtube.com", "news.ycombinator.com"},
                      {5 * MIN})
SocialClockRun == Workload({"www.reddit.com"}, {HOUR})
StreamingClockRun == Workload({"youtube.com"}, {HOUR})

RecordSecs == {5, 10}

\* every full hour of a week (day 0 is a Sunday)
WeekHours == {At(d, h, 0) : d \in 0 .. 6, h \in 0 .. 23}

-----------------------------------------------------------------------------
(* Decisions and responses                                                  *)

Decision(allow, group, remainingMs, allowanceRemaining, reason, grace, lunchAvailable, nextAllowed) ==
    [allow |-> allow, group |-> group, remainingMs |-> remainingMs,
     allowanceRemaining |-> allowanceRemaining, reason |-> reason,
     graceDurationMs |-> grace, lunchAvailable |-> lunchAvailable,
     nextAllowed |-> nextAllowed, error |-> FALSE]

\* { allow: true }
AllowPlain == Decision(TRUE, NoGroup, None, None, "", None, FALSE, None)

\* { allow: false, error } sent by the request handler's catch
ErrorDecision == [AllowPlain EXCEPT !.allow = FALSE, !.error = TRUE]

Event(op, host, type, arg, dec, ok) ==
    [op |-> op, host |-> host, type |-> type, arg |-> arg, dec |-> dec, ok |-> ok]

NoEvent == Event("none", "", "", None, AllowPlain, TRUE)

Session(type, startedAt, expiresAt) ==
    [type |-> type, startedAt |-> startedAt, expiresAt |-> expiresAt]

\* sessions[key] && sessions[key].expiresAt > now
M_IsLive_Held(sess, key, t) == Has(sess, key)
M_IsLive_Inclusive(sess, key, t) == Has(sess, key) /\ sess[key].expiresAt >= t
M_IsLive_GraceOnly(sess, key, t) ==
    Has(sess, key) /\ sess[key].expiresAt > t /\ sess[key].type = "grace"
IsLive(sess, key, t) == Has(sess, key) /\ sess[key].expiresAt > t

\* config.workDays.includes(day) && hour >= workHours.start && hour < workHours.end
isWorkHours(cfg, t) ==
    /\ getDay(t) \in WorkDays
    /\ getHours(t) >= cfg.workStart
    /\ getHours(t) < cfg.workEnd

\* hour >= lunchWindow.start && hour < lunchWindow.end
M_inLunchWindow_Always(cfg, t) == TRUE
inLunchWindow(cfg, t) == getHours(t) >= cfg.lunchStart /\ getHours(t) < cfg.lunchEnd

\* hour >= 21 || hour < 2
M_isEveningHours_NoWrap(t) == getHours(t) >= 21
isEveningHours(t) == getHours(t) >= 21 \/ getHours(t) < 2

\* quotas.hn.filter(timestamp => now - timestamp < windowMs)
M_pruneQuota_KeepAll(q, t, windowMs) == q
pruneQuota(q, t, windowMs) == SelectSeq(q, LAMBDA ts : t - ts < windowMs)

RECURSIVE MinOf(_)
MinOf(q) == IF Len(q) = 1 THEN q[1]
            ELSE LET m == MinOf(Tail(q)) IN IF q[1] < m THEN q[1] ELSE m

-----------------------------------------------------------------------------
(* Usage records of the v4 engine                                           *)

UsageRecord(time, views, temp, lunch, first, last) ==
    [shape |-> "record", time |-> time, views |-> views, tempAccessCount |-> temp,
     lunchCount |-> lunch, firstAccess |-> first, lastAccess |-> last]

\* a legacy entry: a bare number of milliseconds
LegacyNumber(ms) == [shape |-> "number", time |-> ms]

\* usage[today]['__lunch__'] = { lunchCount }
LunchOnly(n) == [shape |-> "lunch", lunchCount |-> n]

DayOf(us, day) == IF Has(us, day) THEN us[day] ELSE Empty

\* ensureUsageObject(host, date): the record usage[date][host] after the call
ensureUsageObject(us, host, date) ==
    LET d == DayOf(us, date)
    IN  IF Has(d, host) /\ d[host].shape = "number"
            THEN UsageRecord(d[host].time, 0, 0, 0, None, None)
        ELSE IF ~Has(d, host)
            THEN UsageRecord(0, 0, 0, 0, None, None)
        ELSE d[host]

\* getGroupFirstAccess(group, today): earliest firstAccess of the group's hosts, or None
getGroupFirstAccess(us, group, today) ==
    LET d == DayOf(us, today)
        hits == {d[h].firstAccess : h \in {x \in DOMAIN d :
                     /\ lookupGroup(Chars(x)) = group
                     /\ d[x].shape = "record"
                     /\ d[x].firstAccess # None}}
    IN  IF hits = {} THEN None
        ELSE CHOOSE m \in hits : \A o \in hits : m <= o

\* getTotalLunchCount(today)
getTotalLunchCount(us, today) ==
    LET d == DayOf(us, today)
    IN  IF Has(d, "__lunch__") THEN d["__lunch__"].lunchCount ELSE 0

\* cleanupExpiredViewSessions(targetDate, forceEnd): the viewSessions left
M_cleanupExpiredViewSessions_Inclusive(vs, t, forceEnd) ==
    [h \in {x \in DOMAIN vs : ~forceEnd /\ ~((t - vs[x]) >= VIEW_SESSION_TIMEOUT)} |-> vs[h]]
cleanupExpiredViewSessions(vs, t, forceEnd) ==
    [h \in {x \in DOMAIN vs : ~forceEnd /\ ~((t - vs[x]) > VIEW_SESSION_TIMEOUT)} |-> vs[h]]


-----------------------------------------------------------------------------
(* In-memory state and durable state                                        *)

Mem(se, q, lu, fa, us, vs) ==
    [sessions |-> se, quotas |-> q, lunchUsed |-> lu, sfa |-> fa, usage |-> us,
     viewSessions |-> vs]

\* the module-scope initial values: sessions = {}, quotas = { hn: [] }, ...
DefaultMem == Mem(Empty, <<>>, {}, Empty, Empty, Empty)

CurMem == Mem(sessions, quotas, lunchUsed, sfa, usage, viewSessions)

SetMem(m) ==
    /\ sessions' = m.sessions
    /\ quotas' = m.quotas
    /\ lunchUsed' = m.lunchUsed
    /\ sfa' = m.sfa
    /\ usage' = m.usage
    /\ viewSessions' = m.viewSessions

StoredState(present, se, q, lu, fa) ==
    [present |-> present, sessions |-> se, quotas |-> q, lunchUsed |-> lu, sfa |-> fa]

\* nothing stored yet: every get() yields undefined
NothingStored == StoredState(FALSE, Empty, <<>>, {}, Empty)

\* stateHealthy = false, unsavedChanges = false, fileSaveRetryCount = 0, no retry alarm
DefaultHealth == [stateHealthy |-> FALSE, unsavedChanges |-> FALSE,
                  fileSaveRetryCount |-> 0, retryAt |-> None]

MAX_FILE_SAVE_RETRIES == 3

\* Math.pow(2, n) for the retry delays
Pow2(n) == IF n = 1 THEN 2 ELSE IF n = 2 THEN 4 ELSE IF n = 3 THEN 8 ELSE 16

SaveResult(m, st, us, hl, threw) ==
    [mem |-> m, state |-> st, usage |-> us, health |-> hl, threw |-> threw, wrote |-> TRUE]

\* saveState of the IndexedDB v3 engine: saveStateToIDB, then saveUsageToIDB(today)
saveStateV3(m, t) ==
    IF storageOk
    THEN SaveResult(m,
            StoredState(TRUE, m.sessions, m.quotas, m.lunchUsed, m.sfa),
            IF Has(m.usage, getDateKey(t))
                THEN Put(idbUsage, getDateKey(t), m.usage[getDateKey(t)])
                ELSE idbUsage,
            health, FALSE)
    ELSE SaveResult(m, idbState, idbUsage, health, TRUE)

\* saveState of the v4 engine: view sessions are cleaned up first; the store keeps
\* sessions (the other keys of the 'state' store are written as undefined)
saveStateV4(m, t) ==
    LET m1 == [m EXCEPT !.viewSessions = cleanupExpiredViewSessions(m.viewSessions, t, FALSE)]
    IN  IF storageOk
        THEN SaveResult(m1,
                StoredState(TRUE, m1.sessions, <<>>, {}, Empty),
                IF Has(m1.usage, getDateKey(t))
                    THEN Put(idbUsage, getDateKey(t), m1.usage[getDateKey(t)])
                    ELSE idbUsage,
                health, FALSE)
        ELSE SaveResult(m1, idbState, idbUsage, health, TRUE)

\* validateState(state): the IndexedDB engines check the constant dataVersion
\* only; the storage.local engine checks that every usage value is a number
\* that is not negative
validateState(e, m) ==
    IF e = "sl"
    THEN \A d \in DOMAIN m.usage : \A h \in DOMAIN m.usage[d] :
            m.usage[d][h].shape = "number" /\ m.usage[d][h].time >= 0
    ELSE TRUE

\* the catch block of the storage.local saveState: the failure is judged by
\* re-reading the key
saveFailedSL(m, t, hl) ==
    IF idbState.present
    THEN SaveResult(m, idbState, idbUsage,
            IF hl.fileSaveRetryCount < MAX_FILE_SAVE_RETRIES
            THEN [hl EXCEPT !.unsavedChanges = FALSE, !.stateHealthy = TRUE,
                            !.fileSaveRetryCount = @ + 1,
                            !.retryAt = t + Pow2(hl.fileSaveRetryCount + 1) * SEC]
            ELSE [hl EXCEPT !.unsavedChanges = FALSE, !.stateHealthy = TRUE],
            FALSE)
    ELSE SaveResult(m, idbState, idbUsage,
            [hl EXCEPT !.unsavedChanges = TRUE, !.stateHealthy = FALSE],
            FALSE)

\* saveState(force) of the storage.local engine (no export folder configured):
\* a state that fails validation is refused unless force is set; one blob
\* holds everything; the refusal and a failed set() both end in the catch block
saveStateSLForce(m, t, hl, force) ==
    IF ~validateState("sl", m) /\ ~force
    THEN [saveFailedSL(m, t, hl) EXCEPT !.wrote = FALSE]
    ELSE IF storageOk
    THEN SaveResult(m,
            StoredState(TRUE, m.sessions, m.quotas, m.lunchUsed, m.sfa),
            m.usage,
            [hl EXCEPT !.unsavedChanges = FALSE, !.stateHealthy = TRUE],
            FALSE)
    ELSE saveFailedSL(m, t, hl)

\* saveState() without force
saveStateSLFrom(m, t, hl) == saveStateSLForce(m, t, hl, FALSE)

saveStateSL(m, t) == saveStateSLFrom(m, t, health)

saveState(e, m, t) ==
    IF e = "v4" THEN saveStateV4(m, t)
    ELSE IF e = "sl" THEN saveStateSL(m, t)
    ELSE saveStateV3(m, t)

\* no saveState call in this handler
NoSave(m) == [SaveResult(m, idbState, idbUsage, health, FALSE) EXCEPT !.wrote = FALSE]

\* apply a handler's outcome to memory and to durable storage
Commit(r) ==
    /\ SetMem(r.mem)
    /\ idbState' = r.state
    /\ idbUsage' = r.usage
    /\ health' = r.health
    /\ storageOk' = (storageOk \/ r.wrote)


-----------------------------------------------------------------------------
(* evaluateAccess                                                           *)

EvalResult(dec, m, al, save) == [dec |-> dec, mem |-> m, alarms |-> al, save |-> save]

\* the graceDurationMs a denial carries (the storage.local engine sends none)
Grace(e, ms) == IF e = "sl" THEN None ELSE ms

\* streaming branch of the v3 and storage.local engines
M_streamingV3_Overwrite(e, host, t, m, al) ==
    EvalResult(Decision(TRUE, "streaming", None, HOUR, "", None, FALSE, None),
               [m EXCEPT !.sfa = Put(m.sfa, getDateKey(t), t)], al, TRUE)
streamingV3(e, host, t, m, al) ==
    LET cfg == POLICIES(e).streaming
        today == getDateKey(t)
    IN  IF ~isWorkHours(cfg, t)
            THEN EvalResult(Decision(TRUE, "streaming", None, None, "", None, FALSE, None),
                            m, al, FALSE)
        ELSE IF Has(m.sfa, today)
            THEN IF t - m.sfa[today] >= HOUR
                 THEN IF inLunchWindow(cfg, t) /\ today \notin m.lunchUsed
                      THEN EvalResult(Decision(FALSE, "streaming", None, None, "lunchAvailable",
                                               Grace(e, cfg.graceDurationMs), TRUE, None),
                                      m, al, FALSE)
                      ELSE EvalResult(Decision(FALSE, "streaming", None, None, "exhausted",
                                               Grace(e, cfg.graceDurationMs), FALSE, None),
                                      m, al, FALSE)
                 ELSE EvalResult(Decision(TRUE, "streaming", None, HOUR - (t - m.sfa[today]),
                                          "", None, FALSE, None),
                                 m, al, FALSE)
        ELSE EvalResult(Decision(TRUE, "streaming", None, HOUR, "", None, FALSE, None),
                        [m EXCEPT !.sfa = Put(m.sfa, today, t)], al, TRUE)

\* hackerNews branch of the v3 and storage.local engines
M_hackerNewsV3_AlwaysGrant(e, host, t, m, al) ==
    EvalResult(Decision(TRUE, "hackerNews", POLICIES(e).hackerNews.visitDurationMs, None,
                        "", None, FALSE, None),
               [m EXCEPT !.sessions = Put(m.sessions, host,
                            Session("hnVisit", t, t + POLICIES(e).hackerNews.visitDurationMs))],
               al, TRUE)
hackerNewsV3(e, host, t, m, al) ==
    LET cfg == POLICIES(e).hackerNews
        q == pruneQuota(m.quotas, t, cfg.windowMs)
    IN  IF Len(q) < cfg.maxVisits
        THEN EvalResult(Decision(TRUE, "hackerNews", cfg.visitDurationMs, None, "", None,
                                 FALSE, None),
                        [m EXCEPT !.sessions = Put(m.sessions, host,
                                        Session("hnVisit", t, t + cfg.visitDurationMs)),
                                  !.quotas = Append(q, t)],
                        Put(al, host, t + cfg.visitDurationMs), TRUE)
        ELSE EvalResult(Decision(FALSE, "hackerNews", None, None, "quota",
                                 Grace(e, cfg.graceDurationMs), FALSE,
                                 MinOf(q) + cfg.windowMs),
                        [m EXCEPT !.quotas = q], al, FALSE)

\* evaluateAccess of the v3 and storage.local engines
evaluateAccessV3(e, host, t, m, al) ==
    LET group == Classify(e, host)
    IN  IF group = NoGroup THEN EvalResult(AllowPlain, m, al, FALSE)
        ELSE IF IsLive(m.sessions, host, t)
            THEN EvalResult(Decision(TRUE, group, m.sessions[host].expiresAt - t, None, "",
                                     None, FALSE, None), m, al, FALSE)
        ELSE IF group = "social"
            THEN EvalResult(Decision(FALSE, group, None, None, "always",
                                     Grace(e, POLICIES(e).social.graceDurationMs), FALSE, None),
                            m, al, FALSE)
        ELSE IF group = "streaming" THEN streamingV3(e, host, t, m, al)
        ELSE hackerNewsV3(e, host, t, m, al)

\* const activeSession = sessions[host] || (group === 'streaming' ? sessions['streaming'] : null)
activeSessionKey(sess, host, group) ==
    IF Has(sess, host) THEN host
    ELSE IF group = "streaming" /\ Has(sess, "streaming") THEN "streaming"
    ELSE "none"

\* streaming branch of the v4 engine
streamingV4(host, t, m, al) ==
    LET cfg == PoliciesV4.streaming
        today == getDateKey(t)
        firstAccess == getGroupFirstAccess(m.usage, "streaming", today)
        total == getTotalLunchCount(m.usage, today)
    IN  IF ~isWorkHours(cfg, t) /\ ~isEveningHours(t)
            THEN EvalResult(Decision(TRUE, "streaming", None, None, "", None, FALSE, None),
                            m, al, FALSE)
        ELSE IF isEveningHours(t)
            THEN EvalResult(Decision(FALSE, "streaming", None, None, "evening",
                                     cfg.eveningGraceDurationMs, FALSE, None), m, al, FALSE)
        ELSE IF firstAccess # None /\ firstAccess # 0
            THEN IF t - firstAccess >= HOUR
                 THEN IF inLunchWindow(cfg, t) /\ total < cfg.maxLunchSessions
                      THEN EvalResult(Decision(FALSE, "streaming", None, None, "lunchAvailable",
                                               cfg.graceDurationMs, TRUE, None), m, al, FALSE)
                      ELSE EvalResult(Decision(FALSE, "streaming", None, None, "exhausted",
                                               cfg.graceDurationMs, FALSE, None), m, al, FALSE)
                 ELSE EvalResult(Decision(TRUE, "streaming", None, HOUR - (t - firstAccess),
                                          "", None, FALSE, None), m, al, FALSE)
        ELSE EvalResult(Decision(TRUE, "streaming", None, HOUR, "", None, FALSE, None),
                        m, al, FALSE)

\* hackerNews branch of the v4 engine
hackerNewsV4(host, t, m, al) ==
    LET cfg == PoliciesV4.hackerNews
    IN  IF ~isWorkHours(cfg, t) /\ ~isEveningHours(t)
            THEN EvalResult(Decision(TRUE, "hackerNews", None, None, "", None, FALSE, None),
                            m, al, FALSE)
        ELSE IF isEveningHours(t)
            THEN EvalResult(Decision(FALSE, "hackerNews", None, None, "evening",
                                     cfg.graceDurationMs, FALSE, None), m, al, FALSE)
        ELSE EvalResult(Decision(FALSE, "hackerNews", None, None, "workHours",
                                 cfg.graceDurationMs, FALSE, None), m, al, FALSE)

\* evaluateAccess of the v4 engine
evaluateAccessV4(host, t, m, al) ==
    LET group == lookupGroup(Chars(host))
        key == activeSessionKey(m.sessions, host, group)
    IN  IF group = NoGroup THEN EvalResult(AllowPlain, m, al, FALSE)
        ELSE IF key # "none" /\ IsLive(m.sessions, key, t)
            THEN EvalResult(Decision(TRUE, group, m.sessions[key].expiresAt - t, None, "",
                                     None, FALSE, None), m, al, FALSE)
        ELSE IF group = "social"
            THEN EvalResult(Decision(FALSE, group, None, None, "always",
                                     PoliciesV4.social.graceDurationMs, FALSE, None),
                            m, al, FALSE)
        ELSE IF group = "streaming" THEN streamingV4(host, t, m, al)
        ELSE hackerNewsV4(host, t, m, al)

M_evaluateAccess_PolicyFirst(e, host, t, m, al) ==
    LET group == Classify(e, host)
    IN  IF group = "social"
        THEN EvalResult(Decision(FALSE, group, None, None, "always", None, FALSE, None),
                        m, al, FALSE)
        ELSE IF e = "v4" THEN evaluateAccessV4(host, t, m, al)
        ELSE evaluateAccessV3(e, host, t, m, al)
M_evaluateAccess_BlockUnknown(e, host, t, m, al) ==
    IF Classify(e, host) = NoGroup
    THEN EvalResult([AllowPlain EXCEPT !.allow = FALSE], m, al, FALSE)
    ELSE IF e = "v4" THEN evaluateAccessV4(host, t, m, al)
    ELSE evaluateAccessV3(e, host, t, m, al)
evaluateAccess(e, host, t, m, al) ==
    IF e = "v4" THEN evaluateAccessV4(host, t, m, al)
    ELSE evaluateAccessV3(e, host, t, m, al)


-----------------------------------------------------------------------------
(* Request handlers (chrome.runtime.onMessage)                              *)

\* ensureReady(): the IndexedDB engines answer requests only once ready; the
\* storage.local engine has no gate
Gate == IF engine = "sl" THEN proc \in {"cold", "ready"} ELSE proc = "ready"

resolverVars == <<rHost, rOut>>

\* the variables of the startup sequence and of the save serialisation
sideVars == <<boot, saver, roll, mig, filer, dispatched, tracker>>


\* action 'checkAccess'
CheckAccess(h) ==
    /\ Gate
    /\ LET r == evaluateAccess(engine, h, now, CurMem, alarms)
           sv == IF r.save THEN saveState(engine, r.mem, now) ELSE NoSave(r.mem)
       IN  /\ Commit(sv)
           /\ alarms' = r.alarms
           /\ ev' = Event("checkAccess", h, "", None,
                          IF sv.threw THEN ErrorDecision ELSE r.dec, ~sv.threw)
           /\ pageLunch' = IF ~sv.threw /\ r.dec.lunchAvailable
                            THEN getDateKey(now) ELSE pageLunch
    /\ snap' = <<>>
    /\ UNCHANGED <<engine, scenario, now, spent, proc, midnightAt, saveAlarm,
                   lastRec, resolverVars, sideVars>>

\* const sessionKey = type === 'lunch' ? 'streaming' : host   (v4 only)
M_sessionKey_AlwaysHost(e, host, type) == host
sessionKey(e, host, type) == IF e = "v4" /\ type = "lunch" THEN "streaming" ELSE host

\* usage[today]['__lunch__'].lunchCount++
bumpLunchCount(us, today) ==
    Put(us, today, Put(DayOf(us, today), "__lunch__",
                       LunchOnly(getTotalLunchCount(us, today) + 1)))

\* startSession(host, type, durationMs): memory after the call, before saveState
M_startSession_KeepExisting(e, host, type, durationMs, t, m) ==
    LET key == sessionKey(e, host, type)
    IN  IF Has(m.sessions, key) THEN m
        ELSE [m EXCEPT !.sessions = Put(m.sessions, key, Session(type, t, t + durationMs))]
startSession(e, host, type, durationMs, t, m) ==
    LET key == sessionKey(e, host, type)
        m1 == [m EXCEPT !.sessions = Put(m.sessions, key, Session(type, t, t + durationMs))]
    IN  IF type = "lunch"
        THEN IF e = "v4"
             THEN [m1 EXCEPT !.usage = bumpLunchCount(m.usage, getDateKey(t))]
             ELSE [m1 EXCEPT !.lunchUsed = m.lunchUsed \cup {getDateKey(t)}]
        ELSE IF type = "hnVisit" /\ e # "v4"
             THEN [m1 EXCEPT !.quotas = Append(m.quotas, t)]
        ELSE m1

\* the session requests the blocked page sends for a host of this group
StartKinds(group) ==
    IF group = "social" THEN {<<"grace", 5 * MIN>>}
    ELSE IF group = "streaming" THEN {<<"lunch", 30 * MIN>>}
    ELSE IF group = "hackerNews" THEN {<<"hnVisit", 5 * MIN>>}
    ELSE {}

\* action 'startSession'
StartSession(h, type, durationMs) ==
    /\ type = "hnVisit" => Len(quotas) < MaxQuotaLen
    /\ (type = "lunch" /\ engine = "v4")
          => getTotalLunchCount(usage, getDateKey(now)) < MaxLunchCount
    /\ Gate
    /\ LET m == startSession(engine, h, type, durationMs, now, CurMem)
           sv == saveState(engine, m, now)
       IN  /\ Commit(sv)
           /\ alarms' = Put(alarms, sessionKey(engine, h, type), now + durationMs)
           /\ ev' = Event("startSession", h, type, now + durationMs, AllowPlain, ~sv.threw)
    /\ snap' = <<>>
    /\ UNCHANGED <<engine, scenario, now, spent, proc, midnightAt, saveAlarm,
                   lastRec, resolverVars, sideVars, pageLunch>>

\* the time already recorded in memory for (day, host), in ms
TimeOf(us, day, host) ==
    IF Has(DayOf(us, day), host) THEN DayOf(us, day)[host].time ELSE 0

\* 'recordUsage' of the v3 and storage.local engines: memory after the update
recordUsageV3(host, seconds, t, m) ==
    LET today == getDateKey(t)
    IN  [m EXCEPT !.usage = Put(m.usage, today,
            Put(DayOf(m.usage, today), host,
                LegacyNumber(TimeOf(m.usage, today, host) + seconds * 1000)))]

\* 'recordUsage' of the v4 engine: memory after the update
M_recordUsageV4_Overwrite(host, seconds, t, m) ==
    LET today == getDateKey(t)
        vs == cleanupExpiredViewSessions(m.viewSessions, t, FALSE)
        rec == ensureUsageObject(m.usage, host, today)
        rec2 == [rec EXCEPT !.lastAccess = t, !.time = seconds * 1000,
                            !.views = IF Has(vs, host) THEN @ ELSE @ + 1]
    IN  [m EXCEPT !.usage = Put(m.usage, today, Put(DayOf(m.usage, today), host, rec2)),
                  !.viewSessions = Put(vs, host, t)]
M_recordUsageV4_AnyHour(host, seconds, t, m) ==
    LET today == getDateKey(t)
        vs == cleanupExpiredViewSessions(m.viewSessions, t, FALSE)
        rec == ensureUsageObject(m.usage, host, today)
        rec2 == [rec EXCEPT !.firstAccess = t, !.lastAccess = t, !.time = @ + seconds * 1000,
                            !.views = IF Has(vs, host) THEN @ ELSE @ + 1]
    IN  [m EXCEPT !.usage = Put(m.usage, today, Put(DayOf(m.usage, today), host, rec2)),
                  !.viewSessions = Put(vs, host, t)]
recordUsageV4(host, seconds, t, m) ==
    LET today == getDateKey(t)
        vs == cleanupExpiredViewSessions(m.viewSessions, t, FALSE)
        rec == ensureUsageObject(m.usage, host, today)
        rec1 == IF (rec.firstAccess = None \/ rec.firstAccess = 0) /\ getHours(t) >= 6
                THEN [rec EXCEPT !.firstAccess = t] ELSE rec
        rec2 == [rec1 EXCEPT !.lastAccess = t, !.time = @ + seconds * 1000,
                             !.views = IF Has(vs, host) THEN @ ELSE @ + 1]
    IN  [m EXCEPT !.usage = Put(m.usage, today, Put(DayOf(m.usage, today), host, rec2)),
                  !.viewSessions = Put(vs, host, t)]

\* action 'recordUsage'
RecordUsage(h, seconds) ==
    /\ TimeOf(usage, getDateKey(now), h) + seconds * 1000 <= MaxUsageSec * 1000
    /\ Gate
    /\ LET m == IF engine = "v4" THEN recordUsageV4(h, seconds, now, CurMem)
                ELSE recordUsageV3(h, seconds, now, CurMem)
           sv == saveState(engine, m, now)
       IN  /\ Commit(sv)
           /\ ev' = Event("recordUsage", h, "", seconds, AllowPlain, ~sv.threw)
    /\ lastRec' = Put(lastRec, h, now)
    /\ snap' = <<>>
    /\ UNCHANGED <<engine, scenario, now, spent, proc, alarms, midnightAt,
                   saveAlarm, resolverVars, sideVars, pageLunch>>

\* action 'recordTempAccess' (v4 engine)
RecordTempAccess(h) ==
    /\ engine = "v4"
    /\ Gate
    /\ LET today == getDateKey(now)
           vs == cleanupExpiredViewSessions(viewSessions, now, FALSE)
           rec == ensureUsageObject(usage, h, today)
           m == [CurMem EXCEPT
                   !.usage = Put(usage, today, Put(DayOf(usage, today), h,
                                 [rec EXCEPT !.tempAccessCount = @ + 1])),
                   !.viewSessions = vs]
           sv == saveState(engine, m, now)
       IN  /\ rec.tempAccessCount < MaxTempAccess
           /\ Commit(sv)
           /\ ev' = Event("recordTempAccess", h, "", None, AllowPlain, ~sv.threw)
    /\ snap' = <<>>
    /\ UNCHANGED <<engine, scenario, now, spent, proc, alarms, midnightAt,
                   saveAlarm, lastRec, resolverVars, sideVars, pageLunch>>

\* action 'getUsage': read-only, except that the v4 engine cleans up view sessions
GetUsage ==
    /\ Gate
    /\ Commit(NoSave([CurMem EXCEPT !.viewSessions =
                        IF engine = "v4"
                        THEN cleanupExpiredViewSessions(viewSessions, now, FALSE)
                        ELSE viewSessions]))
    /\ ev' = Event("getUsage", "", "", None, AllowPlain, TRUE)
    /\ snap' = <<>>
    /\ UNCHANGED <<engine, scenario, now, spent, proc, alarms, midnightAt,
                   saveAlarm, lastRec, resolverVars, sideVars, pageLunch>>

\* getSiteInfo(host): its only effect on state is the quota prune of the
\* hackerNews branch (v3 and storage.local engines)
getSiteInfo(e, host, t, m) ==
    IF e # "v4" /\ Classify(e, host) = "hackerNews"
    THEN [m EXCEPT !.quotas = pruneQuota(m.quotas, t, POLICIES(e).hackerNews.windowMs)]
    ELSE m

\* info.sessionRemaining of getSiteInfo(host): Math.ceil(remainingMs / 1000) of
\* the session entry read for the host when its expiresAt > now, None otherwise
sessionRemaining(e, host, t, m) ==
    LET group == Classify(e, host)
        key == IF e = "v4" THEN activeSessionKey(m.sessions, host, group)
               ELSE IF Has(m.sessions, host) THEN host ELSE "none"
    IN  IF group = NoGroup \/ key = "none" THEN None
        ELSE IF m.sessions[key].expiresAt > t
            THEN ((m.sessions[key].expiresAt - t) + 999) \div 1000
        ELSE None

\* action 'getCurrentSite'
GetCurrentSite(h) ==
    /\ Gate
    /\ Commit(NoSave(getSiteInfo(engine, h, now, CurMem)))
    /\ ev' = Event("getCurrentSite", h, "", None, AllowPlain, TRUE)
    /\ snap' = <<>>
    /\ UNCHANGED <<engine, scenario, now, spent, proc, alarms, midnightAt,
                   saveAlarm, lastRec, resolverVars, sideVars, pageLunch>>


-----------------------------------------------------------------------------
(* Alarm handlers (chrome.alarms.onAlarm): not behind the ready gate        *)

\* midnight.setHours(24, 0, 0, 0)
nextMidnight(t) == (getDateKey(t) + 1) * DAY

\* loadUsageForDate(date): request.result || {}
loadUsageForDate(date) == IF Has(idbUsage, date) THEN idbUsage[date] ELSE Empty

\* chrome.tabs.query({}): one open tab on every host the model knows
OpenTabs == Hosts

\* notifyTabsOfBlock(host): the tabs sent 'sessionExpired'
notifyTabsOfBlock(key) == {h \in OpenTabs : h = key}

\* notifyStreamingTabs() of the v4 engine: the tabs sent 'sessionExpired'
notifyStreamingTabs == {h \in OpenTabs : Classify("v4", h) = "streaming"}

M_notified_HostOnly(e, key) == {h \in OpenTabs : h = key}

\* the tabs the 'session-<key>' branch of the alarm listener notifies
notified(e, key) ==
    IF e = "v4" /\ key = "streaming" THEN notifyStreamingTabs
    ELSE notifyTabsOfBlock(key)

\* alarm 'session-<key>': delete sessions[key]; await saveState(); notify.
\* When saveState throws, the listener ends before it notifies
AlarmSession(k) ==
    /\ Has(alarms, k)
    /\ now >= alarms[k]
    /\ LET sv == saveState(engine, [CurMem EXCEPT !.sessions = Del(sessions, k)], now)
       IN  /\ Commit(sv)
           /\ ev' = [sent |-> IF sv.threw THEN {} ELSE notified(engine, k),
                     saved |-> sv.wrote]
                    @@ Event("alarmSession", k, "", None, AllowPlain, ~sv.threw)
    /\ alarms' = Del(alarms, k)
    /\ snap' = <<>>
    /\ UNCHANGED <<engine, scenario, now, spent, proc, midnightAt, saveAlarm,
                   lastRec, resolverVars, sideVars, pageLunch>>

\* the browser fires the alarm 'session-<key>': the alarm is gone from
\* chrome.alarms and its onAlarm event is on its way to the service worker
AlarmFires(k) ==
    /\ Has(alarms, k)
    /\ now >= alarms[k]
    /\ k \notin dispatched
    /\ alarms' = Del(alarms, k)
    /\ dispatched' = dispatched \cup {k}
    /\ UNCHANGED <<engine, scenario, now, spent, proc, storageOk, sessions, quotas,
                   lunchUsed, sfa, usage, viewSessions, health, midnightAt, saveAlarm,
                   idbState, idbUsage, lastRec, snap, pageLunch, ev, resolverVars,
                   boot, saver, roll, mig, filer, tracker>>

\* the onAlarm listener runs for an event fired earlier: the same handler,
\* whatever requests the worker has served in between
AlarmSessionLate(k) ==
    /\ k \in dispatched
    /\ dispatched' = dispatched \ {k}
    /\ LET sv == saveState(engine, [CurMem EXCEPT !.sessions = Del(sessions, k)], now)
       IN  /\ Commit(sv)
           /\ ev' = [sent |-> IF sv.threw THEN {} ELSE notified(engine, k),
                     saved |-> sv.wrote]
                    @@ Event("alarmSession", k, "", None, AllowPlain, ~sv.threw)
    /\ snap' = <<>>
    /\ UNCHANGED <<engine, scenario, now, spent, proc, alarms, midnightAt, saveAlarm,
                   lastRec, resolverVars, pageLunch, boot, saver, roll, mig, filer,
                   tracker>>

\* alarm 'saveUsage' (periodic)
AlarmSaveUsage ==
    /\ saveAlarm
    /\ LET h1 == IF health.unsavedChanges
                 THEN [health EXCEPT !.fileSaveRetryCount = 0] ELSE health
           sv == IF engine = "sl" THEN saveStateSLFrom(CurMem, now, h1)
                 ELSE saveState(engine, CurMem, now)
       IN  /\ Commit(sv)
           /\ ev' = Event("alarmSaveUsage", "", "", None, AllowPlain, ~sv.threw)
    /\ snap' = <<>>
    /\ UNCHANGED <<engine, scenario, now, spent, proc, alarms, midnightAt,
                   saveAlarm, lastRec, resolverVars, sideVars, pageLunch>>

\* alarm 'retry-file-save' (storage.local engine): saveState(true)
AlarmRetryFileSave ==
    /\ engine = "sl"
    /\ health.retryAt # None
    /\ now >= health.retryAt
    /\ LET sv == saveStateSLForce(CurMem, now, [health EXCEPT !.retryAt = None], TRUE)
       IN  /\ Commit(sv)
           /\ ev' = Event("alarmRetryFileSave", "", "", None, AllowPlain, TRUE)
    /\ snap' = <<>>
    /\ UNCHANGED <<engine, scenario, now, spent, proc, alarms, midnightAt,
                   saveAlarm, lastRec, resolverVars, sideVars, pageLunch>>

HandlerResult(sv, rescheduled) == [sv |-> sv, rescheduled |-> rescheduled]

\* handleMidnight of the v3 engine
handleMidnightV3(t, m) ==
    LET today == getDateKey(t)
        m1 == [m EXCEPT !.lunchUsed = {}, !.sfa = Empty,
                        !.usage = Put(m.usage, today, loadUsageForDate(today))]
        sv == saveStateV3(m1, t)
    IN  HandlerResult(sv, ~sv.threw)

\* handleMidnight of the v4 engine
M_handleMidnightV4_NoFlush(t, m) ==
    LET today == getDateKey(t)
        m1 == [m EXCEPT !.viewSessions = Empty,
                        !.usage = Put(m.usage, today, loadUsageForDate(today))]
        sv == saveStateV4(m1, t)
    IN  HandlerResult(sv, ~sv.threw)
handleMidnightV4(t, m) ==
    LET today == getDateKey(t)
        yesterdayKey == getDateKey(t - DAY)
        us1 == IF Has(m.usage, yesterdayKey) THEN m.usage
               ELSE Put(m.usage, yesterdayKey, loadUsageForDate(yesterdayKey))
        m1 == [m EXCEPT !.usage = us1,
                        !.viewSessions = cleanupExpiredViewSessions(m.viewSessions, t, TRUE)]
    IN  IF ~storageOk
        THEN HandlerResult(SaveResult(m1, idbState, idbUsage, health, TRUE), FALSE)
        ELSE LET flushed == Put(idbUsage, yesterdayKey, us1[yesterdayKey])
                 m2 == [m1 EXCEPT !.usage = Put(us1, today,
                            IF Has(flushed, today) THEN flushed[today] ELSE Empty)]
                 m3 == [m2 EXCEPT !.viewSessions =
                            cleanupExpiredViewSessions(m2.viewSessions, t, FALSE)]
             IN  HandlerResult(
                    SaveResult(m3, StoredState(TRUE, m3.sessions, <<>>, {}, Empty),
                               Put(flushed, today, m3.usage[today]), health, FALSE),
                    TRUE)

\* handleMidnight of the storage.local engine (usage older than 30 days is dropped)
handleMidnightSL(t, m) ==
    LET cutoff == getDateKey(t) - 30
        m1 == [m EXCEPT !.lunchUsed = {}, !.sfa = Empty,
                        !.usage = [d \in {x \in DOMAIN m.usage : ~(x < cutoff)} |-> m.usage[d]]]
    IN  HandlerResult(saveStateSL(m1, t), TRUE)

handleMidnight(e, t, m) ==
    IF e = "v4" THEN handleMidnightV4(t, m)
    ELSE IF e = "sl" THEN handleMidnightSL(t, m)
    ELSE handleMidnightV3(t, m)

\* alarm 'midnight'
AlarmMidnight ==
    /\ midnightAt # None
    /\ now >= midnightAt
    /\ lastRec' = Empty
    /\ LET r == handleMidnight(engine, now, CurMem)
       IN  /\ Commit(r.sv)
           /\ midnightAt' = IF r.rescheduled THEN nextMidnight(now) ELSE None
           /\ ev' = Event("alarmMidnight", "", "", None, AllowPlain, ~r.sv.threw)
    /\ snap' = <<>>
    /\ UNCHANGED <<engine, scenario, now, spent, proc, alarms, saveAlarm, resolverVars, sideVars, pageLunch>>

-----------------------------------------------------------------------------
(* Process lifecycle                                                        *)

\* the host tears the service worker down: module-scope state is gone, durable
\* storage and registered alarms stay
Kill ==
    /\ proc # "cold"
    /\ spent.kills < MaxKills
    /\ spent' = [spent EXCEPT !.kills = @ + 1]
    /\ SetMem(DefaultMem)
    /\ health' = [DefaultHealth EXCEPT !.retryAt = health.retryAt]
    /\ proc' = "cold"
    /\ snap' = [state |-> idbState, usage |-> idbUsage, day |-> getDateKey(now)]
    /\ ev' = Event("kill", "", "", None, AllowPlain, TRUE)
    /\ UNCHANGED <<engine, scenario, now, storageOk, alarms, midnightAt, saveAlarm,
                   idbState, idbUsage, lastRec, resolverVars, sideVars, pageLunch>>

\* what initialize() writes to the 'state' store to verify the storage environment
M_storageProbe_Keep == idbState
storageProbe == StoredState(TRUE, Empty, <<>>, {}, Empty)

\* initialize() of the IndexedDB engines up to loadState(): the storage check
InitStorageCheck ==
    /\ engine # "sl"
    /\ proc = "cold"
    /\ IF storageOk
       THEN /\ idbState' = storageProbe
            /\ proc' = "loading"
       ELSE /\ idbState' = idbState
            /\ proc' = "stuck"
    /\ storageOk' = TRUE
    /\ ev' = Event("initialize", "", "", None, AllowPlain, storageOk)
    /\ UNCHANGED <<engine, scenario, now, spent, sessions, quotas, lunchUsed,
                   sfa, usage, viewSessions, health, alarms, midnightAt, saveAlarm,
                   idbUsage, lastRec, resolverVars, sideVars, snap, pageLunch>>

\* the expired-session sweep of loadState: delete when expiresAt < now
M_sweepExpired_KeepAll(sess, t) == sess
M_sweepExpired_DropAll(sess, t) == Empty
sweepExpired(sess, t) == [k \in {x \in DOMAIN sess : ~(sess[x].expiresAt < t)} |-> sess[k]]

\* loadState of the v4 engine: firstAccess before 6am is reset to null
resetEarlyFirstAccess(day) ==
    [h \in DOMAIN day |->
        IF day[h].shape = "record" /\ day[h].firstAccess # None /\ day[h].firstAccess # 0
           /\ getHours(day[h].firstAccess) < 6
        THEN [day[h] EXCEPT !.firstAccess = None] ELSE day[h]]

\* loadState(): memory after the load
loadState(e, t, m) ==
    LET today == getDateKey(t)
    IN  IF e = "v4"
        THEN Mem(sweepExpired(idbState.sessions, t), m.quotas, m.lunchUsed, m.sfa,
                 Put(m.usage, today, resetEarlyFirstAccess(loadUsageForDate(today))),
                 Empty)
        ELSE IF e = "v3"
        THEN Mem(sweepExpired(idbState.sessions, t), idbState.quotas, idbState.lunchUsed,
                 idbState.sfa, Put(m.usage, today, loadUsageForDate(today)), m.viewSessions)
        ELSE IF ~idbState.present THEN DefaultMem
        ELSE Mem(sweepExpired(idbState.sessions, t), idbState.quotas, idbState.lunchUsed,
                 idbState.sfa, idbUsage, m.viewSessions)

\* initialize() from loadState() on: load, setupAlarms(), ready = true
LoadState ==
    /\ proc = (IF engine = "sl" THEN "cold" ELSE "loading")
    /\ SetMem(loadState(engine, now, CurMem))
    /\ health' = IF engine = "sl" THEN [health EXCEPT !.stateHealthy = TRUE] ELSE health
    /\ midnightAt' = nextMidnight(now)
    /\ saveAlarm' = TRUE
    /\ proc' = "ready"
    /\ ev' = Event("loadState", "", "", None, AllowPlain, TRUE)
    /\ UNCHANGED <<engine, scenario, now, spent, storageOk, alarms, idbState, idbUsage,
                   lastRec, resolverVars, sideVars, snap, pageLunch>>

-----------------------------------------------------------------------------
(* Environment                                                              *)

Tick(d) ==
    /\ spent.ticks < MaxTicks
    /\ now' = now + d
    /\ spent' = [spent EXCEPT !.ticks = @ + 1]
    /\ lastRec' = IF getDateKey(now + d) # getDateKey(now) THEN Empty ELSE lastRec
    /\ ev' = Event("tick", "", "", d, AllowPlain, TRUE)
    /\ UNCHANGED <<engine, scenario, proc, storageOk, sessions, quotas, lunchUsed, sfa,
                   usage, viewSessions, health, alarms, midnightAt, saveAlarm, idbState,
                   idbUsage, resolverVars, sideVars, snap, pageLunch>>

\* the next durable write fails (quota exceeded, store unavailable)
StorageFault ==
    /\ storageOk
    /\ spent.faults < MaxFaults
    /\ storageOk' = FALSE
    /\ spent' = [spent EXCEPT !.faults = @ + 1]
    /\ ev' = Event("storage", "", "", None, AllowPlain, TRUE)
    /\ UNCHANGED <<engine, scenario, now, proc, sessions, quotas, lunchUsed, sfa,
                   usage, viewSessions, health, alarms, midnightAt, saveAlarm, idbState,
                   idbUsage, lastRec, resolverVars, sideVars, snap, pageLunch>>

\* the persisted state is malformed: what storage holds for today has a
\* negative time for the host h
Malformed(us) ==
    \E d \in DOMAIN us : \E h \in DOMAIN us[d] :
        us[d][h].shape # "lunch" /\ us[d][h].time < 0

StorageCorrupted(h) ==
    /\ ~Malformed(idbUsage)
    /\ idbState' = [idbState EXCEPT !.present = TRUE]
    /\ idbUsage' = Put(idbUsage, getDateKey(now),
                       Put(DayOf(idbUsage, getDateKey(now)), h, LegacyNumber(0 - SEC)))
    /\ ev' = Event("corrupt", h, "", None, AllowPlain, TRUE)
    /\ UNCHANGED <<engine, scenario, now, spent, proc, storageOk, sessions, quotas,
                   lunchUsed, sfa, usage, viewSessions, health, alarms, midnightAt,
                   saveAlarm, lastRec, resolverVars, sideVars, snap, pageLunch>>

-----------------------------------------------------------------------------
(* The startup sequence, at the granularity of its awaits                   *)

MaxRequests == 2       \* messages arriving in one process lifetime

\* the invocations of the two lifecycle listeners and of the message
\* listener: everything that can enter initialize() or ensureReady()
Listeners == {<<"onInstalled", 1>>, <<"onStartup", 1>>}
Requests == {<<"onMessage", i>> : i \in 1 .. MaxRequests}
Callers == Listeners \cup Requests

\* let ready = false; let readyPromise = null; nobody has been called yet.
\* inits and loads count the calls of initialize() and of loadState()
BootCold ==
    [ready |-> FALSE, readyPromise |-> "null",
     at |-> [c \in Callers |-> "idle"], inits |-> 0, loads |-> 0]

\* initialize() up to its first await: the promise is created unless there is
\* one; the body then runs for every caller
initialize(b, c) ==
    [b EXCEPT !.readyPromise = IF @ = "null" THEN "pending" ELSE @,
              !.at[c] = "check",
              !.inits = @ + 1]

\* ensureReady() up to its first await, for the message r
ensureReady(b, r) ==
    IF b.ready THEN [b EXCEPT !.at[r] = "answered"]
    ELSE IF b.readyPromise = "null" THEN initialize(b, r)
    ELSE [b EXCEPT !.at[r] = "wait"]

\* an exception leaves initialize(): a listener's promise rejects, a message
\* handler's .catch sends the error response
thrown(b, c) ==
    [b EXCEPT !.at[c] = IF c \in Listeners THEN "rejected" ELSE "error"]

\* the tail of initialize() after loadState: ready = true; readyResolve();
\* a message goes on to await readyPromise
initialized(b, c) ==
    [b EXCEPT !.ready = TRUE,
              !.readyPromise = "resolved",
              !.at[c] = IF c \in Listeners THEN "returned" ELSE "wait"]

-----------------------------------------------------------------------------
(* saveState, at the granularity of its awaits                              *)

MaxSaveCalls == 4      \* calls of saveState in one run

SaveCalls == 1 .. MaxSaveCalls

\* let saving = false (isSaving, saveQueue = null in the storage.local
\* engine); version counts the changes of the in-memory state, stored is the
\* version in durable storage, taken the version each call serialised
SaverIdle ==
    [saving |-> FALSE, saveQueue |-> FALSE,
     at |-> [c \in SaveCalls |-> "idle"],
     taken |-> [c \in SaveCalls |-> 0],
     version |-> 0, stored |-> 0, failed |-> FALSE]

\* the calls of saveState that hold the flag: between the call and the
\* finally block
InFlight(sv) == {c \in SaveCalls : sv.at[c] \in {"open", "state", "usage", "verify"}}

M_busy_Never(sv) == FALSE

\* if (saving) return;  /  if (isSaving) { ... return; }
busy(sv) == sv.saving

\* the storage.local engine arms the 100 ms retry timer unless one is pending;
\* the IndexedDB engines return without a trace
queued(e, sv) == IF e = "sl" THEN TRUE ELSE sv.saveQueue

\* saveState() up to its first await, as the call c. The storage.local engine
\* hands stateToSave to chrome.storage.local.set at once; the IndexedDB
\* engines first await openDB() inside saveStateToIDB
saveStateCall(e, sv, c) ==
    IF busy(sv)
    THEN [sv EXCEPT !.at[c] = "skipped", !.saveQueue = queued(e, sv)]
    ELSE IF e = "sl"
    THEN [sv EXCEPT !.saving = TRUE, !.at[c] = "state", !.taken[c] = sv.version]
    ELSE [sv EXCEPT !.saving = TRUE, !.at[c] = "open"]

\* the finally block: the flag is released, the call is over
released(sv, c, how) == [sv EXCEPT !.saving = FALSE, !.at[c] = how]

\* a durable write of the call c fails: the IndexedDB engines leave through
\* finally with the exception, the storage.local engine enters its catch and
\* reads the stored state back
writeFailed(e, sv, c) ==
    IF e = "sl" THEN [sv EXCEPT !.at[c] = "verify", !.failed = TRUE]
    ELSE [released(sv, c, "rejected") EXCEPT !.failed = TRUE]

-----------------------------------------------------------------------------
(* One day's usage counter of the IndexedDB engines, at the granularity of   *)
(* the awaits of loadState, handleMidnight and saveState                     *)

MaxRecords == 3        \* recordUsage requests in one run

\* a worker starts: usage = {} in memory, disk is what the usage store holds
\* for the day. Amounts are in units of one reported interval. loader and
\* midnight are the positions of loadState and handleMidnight in
\* usage[today] = await loadUsageForDate(today); writer is the position of the
\* one saveState that holds the flag. base and sum are the value loadState
\* loaded and the deltas recorded since
RollCold(d) ==
    [mem |-> 0, disk |-> d, base |-> 0, sum |-> 0, ready |-> FALSE,
     loader |-> "idle", midnight |-> "idle", writer |-> "none",
     got |-> 0, clone |-> 0, saving |-> FALSE, records |-> 0, kills |-> 0]

\* saveState() up to its first await: nothing when the flag is held,
\* otherwise the flag is taken and saveStateToIDB starts
usageSaveCall(r) ==
    IF r.saving THEN r ELSE [r EXCEPT !.saving = TRUE, !.writer = "open"]

-----------------------------------------------------------------------------
(* Migration of persisted state                                             *)

\* the dataVersion a persisted state can carry: none ("" stands for
\* undefined), an older one, the ones the engines write, an unknown one
StoredVersions == {"", "1.0.0", "2.0.0", "3.0.0", "4.0.0", "9.9.9"}

Persisted(v, se, lu) == [dataVersion |-> v, sessions |-> se, lunchUsed |-> lu]

\* the persisted states the check loads
PersistedStates ==
    {Persisted(v, se, lu) :
        v \in StoredVersions,
        se \in {Empty, Put(Empty, "www.reddit.com", Session("grace", 0, 5 * MIN))},
        lu \in {{}, {0}}}

\* dataVersion: '3.0.0' / '4.0.0' in stateToSave
currentVersion(e) == IF e = "v4" THEN "4.0.0" ELSE "3.0.0"

\* migrateState(state)
migrateState(e, st) ==
    LET version == IF st.dataVersion = "" THEN "1.0.0" ELSE st.dataVersion
    IN  IF version = currentVersion(e) THEN st
        ELSE [st EXCEPT !.dataVersion = currentVersion(e)]

\* loadStateFromIDB(): dataVersion: dataVersion || '3.0.0'
loadStateFromIDB(st) ==
    [st EXCEPT !.dataVersion = IF @ = "" THEN "3.0.0" ELSE @]

\* the state loadState() goes on with: the storage.local engine migrates what
\* it chose, the IndexedDB engines take what loadStateFromIDB returns
loadedState(e, st) ==
    IF e = "sl" THEN migrateState(e, st) ELSE loadStateFromIDB(st)

NothingFound == [stage |-> "none"]

-----------------------------------------------------------------------------
(* saveState of the storage.local engine: health flags, badge, file retries *)

MaxFileSaves == 7      \* calls of saveState in one run

\* let stateHealthy = false; let unsavedChanges = false; let
\* fileSaveRetryCount = 0; no badge, no 'retry-file-save' alarm, nothing
\* stored, no export folder. retryIn is the delay of the pending alarm in
\* seconds (0: none); scheduled counts the retry alarms created since the last
\* successful file save, primaryFailed tells that the last save's
\* chrome.storage.local.set failed, calls counts the saves
FilerStart ==
    [stateHealthy |-> FALSE, unsavedChanges |-> FALSE, fileSaveRetryCount |-> 0,
     badge |-> "", retryIn |-> 0, stored |-> FALSE, folder |-> FALSE,
     scheduled |-> 0, primaryFailed |-> FALSE, cleared |-> "", calls |-> 0]

\* what chrome.storage.local.get can do in the catch block
GetOutcomes == {"read", "throws"}

\* the catch block of saveState, entered after a failed write; f.stored tells
\* whether a state is stored under the key
saveCaught(f, get) ==
    IF get = "read" /\ f.stored
    THEN IF f.fileSaveRetryCount < MAX_FILE_SAVE_RETRIES
         THEN [f EXCEPT !.unsavedChanges = FALSE, !.stateHealthy = TRUE,
                        !.fileSaveRetryCount = @ + 1,
                        !.retryIn = Pow2(f.fileSaveRetryCount + 1),
                        !.scheduled = @ + 1,
                        !.badge = "File save pending - local data safe"]
         ELSE [f EXCEPT !.unsavedChanges = FALSE, !.stateHealthy = TRUE,
                        !.badge = "File not saved - local data safe"]
    ELSE [f EXCEPT !.unsavedChanges = TRUE, !.stateHealthy = FALSE,
                   !.badge = "Storage error - data not saved"]

\* saveState(force) of the storage.local engine for a state that passes
\* validation: setOk and fileOk are the outcomes of chrome.storage.local.set
\* and of the offscreen file write, get that of the read in the catch block
saveStateFile(f, setOk, fileOk, get) ==
    LET f0 == [f EXCEPT !.calls = @ + 1, !.primaryFailed = ~setOk, !.cleared = ""]
        f1 == IF setOk THEN [f0 EXCEPT !.stored = TRUE] ELSE f0
    IN  IF ~setOk THEN saveCaught(f1, get)
        ELSE IF ~f.folder
        THEN [f1 EXCEPT !.unsavedChanges = FALSE, !.stateHealthy = TRUE,
                        !.badge = "", !.cleared = "save"]
        ELSE IF fileOk
        THEN [f1 EXCEPT !.fileSaveRetryCount = 0, !.unsavedChanges = FALSE,
                        !.stateHealthy = TRUE, !.badge = "", !.scheduled = 0,
                        !.cleared = "save"]
        ELSE saveCaught(f1, get)

-----------------------------------------------------------------------------------------------------------------------------------------------------
(* The content script's usage tracking (one tab) and the engine's answers   *)

MaxSeconds == 2        \* seconds of visible time the tab accumulates
MaxReports == 3        \* recordUsage messages the tab sends

Senders == {"periodic", "flush"}

\* a sender's position: "idle", "sent" (awaiting chrome.runtime.sendMessage),
\* "answered" (the response is there, the continuation has not run)
Idle == [stage |-> "idle", seconds |-> 0, success |-> FALSE]

\* let accumulatedSeconds = 0; let lastReportedSeconds = 0; the tab is visible
TrackerStart ==
    [accumulatedSeconds |-> 0, lastReportedSeconds |-> 0, visible |-> TRUE,
     at |-> [c \in Senders |-> Idle],
     total |-> 0, acked |-> 0, sent |-> 0]

\* the unreported seconds a sender computes before it sends
unreported(tr) == tr.accumulatedSeconds - tr.lastReportedSeconds

\* chrome.runtime.sendMessage({action: 'recordUsage', host, seconds})
sendReport(tr, c) ==
    [tr EXCEPT !.at[c] = [stage |-> "sent", seconds |-> unreported(tr), success |-> FALSE],
               !.sent = @ + 1]

\* the answer of the engine's recordUsage handler: the storage.local saveState
\* swallows a failed save, the IndexedDB engines answer {success: false}
recordAnswer(e, saved) == IF e = "sl" THEN TRUE ELSE saved

-----
(* Specifications of the engine: a fresh install running one workload       *)

\* the state of a fresh install started at one of the instants in times
InitAt(sc, times) ==
    /\ engine \in Engines
    /\ scenario = sc
    /\ now \in times
    /\ spent = [ticks |-> 0, kills |-> 0, faults |-> 0]
    /\ proc = "cold"
    /\ storageOk = TRUE
    /\ sessions = Empty
    /\ quotas = <<>>
    /\ lunchUsed = {}
    /\ sfa = Empty
    /\ usage = Empty
    /\ viewSessions = Empty
    /\ health = DefaultHealth
    /\ alarms = Empty
    /\ midnightAt = None
    /\ saveAlarm = FALSE
    /\ idbState = NothingStored
    /\ idbUsage = Empty
    /\ lastRec = Empty
    /\ snap = <<>>
    /\ pageLunch = None
    /\ ev = NoEvent
    /\ rHost = <<>>
    /\ rOut = <<>>
    /\ boot = BootCold
    /\ saver = SaverIdle
    /\ roll = RollCold(0)
    /\ mig = NothingFound
    /\ filer = FilerStart
    /\ dispatched = {}
    /\ tracker = TrackerStart

InitFor(sc) == InitAt(sc, StartTimes)

\* what happens around the requests: the clock, the save alarms, the worker's
\* lifecycle, a failing write
Background ==
    \/ AlarmSaveUsage
    \/ AlarmRetryFileSave
    \/ Kill
    \/ InitStorageCheck
    \/ LoadState
    \/ \E d \in scenario.steps : Tick(d)
    \/ StorageFault

Checks == \E h \in scenario.hosts : CheckAccess(h)

Starts ==
    \E h \in scenario.hosts : \E k \in StartKinds(Classify(engine, h)) :
        StartSession(h, k[1], k[2])

Expiries == \E k \in DOMAIN alarms : AlarmSession(k)

SiteInfos == \E h \in scenario.hosts : GetCurrentSite(h)

InitSocial == InitFor(SocialRun)
NextSocial ==
    \/ Checks
    \/ Starts
    \/ Expiries
    \/ SiteInfos
    \/ \E h \in scenario.hosts : RecordTempAccess(h)
    \/ AlarmMidnight
    \/ Background
SpecSocial == InitSocial /\ [][NextSocial]_vars

InitStreaming == InitFor(StreamingRun)
NextStreaming ==
    \/ Checks
    \/ Starts
    \/ Expiries
    \/ AlarmMidnight
    \/ Background
SpecStreaming == InitStreaming /\ [][NextStreaming]_vars

InitQuota == InitFor(QuotaRun)
NextQuota ==
    \/ Checks
    \/ Starts
    \/ Expiries
    \/ SiteInfos
    \/ Background
SpecQuota == InitQuota /\ [][NextQuota]_vars

\* runs started at any hour of any day of the week, the clock moving by hours
InitSocialClock == InitAt(SocialClockRun, WeekHours)
NextSocialClock ==
    \/ Checks
    \/ Starts
    \/ Expiries
    \/ InitStorageCheck
    \/ LoadState
    \/ \E d \in scenario.steps : Tick(d)
SpecSocialClock == InitSocialClock /\ [][NextSocialClock]_vars

InitStreamingClock == InitAt(StreamingClockRun, WeekHours)
NextStreamingClock ==
    \/ Checks
    \/ Starts
    \/ Expiries
    \/ \E h \in scenario.hosts : RecordUsage(h, 5)
    \/ AlarmMidnight
    \/ InitStorageCheck
    \/ LoadState
    \/ \E d \in scenario.steps : Tick(d)
SpecStreamingClock == InitStreamingClock /\ [][NextStreamingClock]_vars

\* runs over two days in which the midnight and the session alarms may fire
\* late or not at all
InitLazy == InitFor(LazyRun)
NextLazy ==
    \/ Checks
    \/ Starts
    \/ Expiries
    \/ \E h \in scenario.hosts : RecordUsage(h, 10)
    \/ AlarmMidnight
    \/ InitStorageCheck
    \/ LoadState
    \/ \E d \in scenario.steps : Tick(d)
SpecLazy == InitLazy /\ [][NextLazy]_vars

\* runs in which a streaming host is given sessions under its own key (grace)
\* and under the group's shared key (lunch), at noon and in the evening
GroupStarts ==
    \E h \in scenario.hosts :
        \E k \in StartKinds("streaming") \cup {<<"grace", 5 * MIN>>} :
            StartSession(h, k[1], k[2])

InitShared == InitAt(SharedRun, {At(1, 12, 0), At(1, 21, 0)})
NextShared ==
    \/ Checks
    \/ GroupStarts
    \/ Expiries
    \/ InitStorageCheck
    \/ LoadState
    \/ \E d \in scenario.steps : Tick(d)
SpecShared == InitShared /\ [][NextShared]_vars

\* runs that send checks and session requests for a host of every group
InitGroups == InitFor(GroupsRun)
NextGroups ==
    \/ Checks
    \/ Starts
    \/ Expiries
    \/ InitStorageCheck
    \/ LoadState
    \/ \E d \in scenario.steps : Tick(d)
SpecGroups == InitGroups /\ [][NextGroups]_vars

\* the blocked page opened for a denied check: its grace button sends
\* startSession with durationMs = graceMs, the graceDurationMs the denial
\* carried or 0 when it carried none
graceMs(dec) == IF dec.graceDurationMs = None THEN 0 ELSE dec.graceDurationMs

GraceClick ==
    /\ ev.op = "checkAccess"
    /\ ev.ok
    /\ ~ev.dec.allow
    /\ StartSession(ev.host, "grace", graceMs(ev.dec))

\* runs in which sessions are started from the blocked page's grace button
InitGrace == InitFor(SocialRun)
NextGrace ==
    \/ Checks
    \/ GraceClick
    \/ Expiries
    \/ InitStorageCheck
    \/ LoadState
    \/ \E d \in scenario.steps : Tick(d)
SpecGrace == InitGrace /\ [][NextGrace]_vars

\* runs in which the onAlarm event of a session alarm reaches the worker after
\* other requests
InitLate == InitFor(SocialRun)
NextLate ==
    \/ Checks
    \/ Starts
    \/ \E k \in DOMAIN alarms : AlarmFires(k)
    \/ \E k \in dispatched : AlarmSessionLate(k)
    \/ InitStorageCheck
    \/ LoadState
    \/ \E d \in scenario.steps : Tick(d)
SpecLate == InitLate /\ [][NextLate]_vars

\* the 1 s ticker: accumulatedSeconds++ while the tab is visible
SecondPasses ==
    /\ tracker.visible
    /\ tracker.accumulatedSeconds < MaxSeconds
    /\ tracker' = [tracker EXCEPT !.accumulatedSeconds = @ + 1]
    /\ UNCHANGED <<engineVars, resolverVars, boot, saver, roll, mig, filer, dispatched>>

\* the 10 s report: sends the unreported seconds when there are any and the
\* tab is visible
ReportFires ==
    /\ tracker.at["periodic"].stage = "idle"
    /\ tracker.sent < MaxReports
    /\ unreported(tracker) > 0
    /\ tracker.visible
    /\ tracker' = sendReport(tracker, "periodic")
    /\ UNCHANGED <<engineVars, resolverVars, boot, saver, roll, mig, filer, dispatched>>

\* visibilitychange to hidden: flushes the unreported seconds when
\* accumulatedSeconds > lastReportedSeconds
TabHidden ==
    /\ tracker.visible
    /\ tracker.at["flush"].stage = "idle"
    /\ tracker.sent < MaxReports
    /\ tracker' = IF tracker.accumulatedSeconds > tracker.lastReportedSeconds
                  THEN [sendReport(tracker, "flush") EXCEPT !.visible = FALSE]
                  ELSE [tracker EXCEPT !.visible = FALSE]
    /\ UNCHANGED <<engineVars, resolverVars, boot, saver, roll, mig, filer, dispatched>>

\* visibilitychange to visible: the listener does nothing
TabShown ==
    /\ ~tracker.visible
    /\ tracker' = [tracker EXCEPT !.visible = TRUE]
    /\ UNCHANGED <<engineVars, resolverVars, boot, saver, roll, mig, filer, dispatched>>

\* the engine handles the recordUsage message of sender c: the seconds are
\* added to the host's usage in memory, then saveState succeeds or fails
ReportHandled(c, saved) ==
    /\ tracker.at[c].stage = "sent"
    /\ tracker' = [tracker EXCEPT
            !.total = @ + tracker.at[c].seconds,
            !.at[c] = [@ EXCEPT !.stage = "answered",
                                !.success = recordAnswer(engine, saved)]]
    /\ UNCHANGED <<engineVars, resolverVars, boot, saver, roll, mig, filer, dispatched>>

\* the sender resumes after its await: if (result?.success)
\* lastReportedSeconds += the seconds it computed before sending
ReportResumes(c) ==
    /\ tracker.at[c].stage = "answered"
    /\ tracker' = IF tracker.at[c].success
                  THEN [tracker EXCEPT
                          !.lastReportedSeconds = @ + tracker.at[c].seconds,
                          !.acked = @ + tracker.at[c].seconds,
                          !.at[c] = Idle]
                  ELSE [tracker EXCEPT !.at[c] = Idle]
    /\ UNCHANGED <<engineVars, resolverVars, boot, saver, roll, mig, filer, dispatched>>

InitTracker == InitFor(UsageRun)
NextTracker ==
    \/ SecondPasses
    \/ ReportFires
    \/ TabHidden
    \/ TabShown
    \/ \E c \in Senders : \E saved \in BOOLEAN : ReportHandled(c, saved)
    \/ \E c \in Senders : ReportResumes(c)
SpecTracker == InitTracker /\ [][NextTracker]_vars

InitUsage == InitFor(UsageRun)
NextUsage ==
    \/ Checks
    \/ \E h \in scenario.hosts : \E s \in RecordSecs : RecordUsage(h, s)
    \/ GetUsage
    \/ AlarmMidnight
    \/ Background
SpecUsage == InitUsage /\ [][NextUsage]_vars

-----------------------------------------------------------------------------
(* Specification of the two resolvers on their own                          *)

Unset == "unset"

s_com == <<"c","o","m">>
s_evil == <<"e","v","i","l">>
s_ycombinator == SubSeq(s_hn, 6, Len(s_hn))

\* hosts built around the policy domains: bare, with a subdomain, with a prefix
\* glued on without a dot, with a leading dot, and with something after them
HostPrefixes == {<<>>, s_www, s_evil, <<"a", ".", "b", ".">>, <<Dot>>}
HostBases == {s_reddit, s_x, s_max, s_hbomax, s_netflix, s_hn, s_ycombinator, s_example, s_com}
HostTails == {<<>>, <<Dot>>, <<Dot>> \o s_evil \o <<Dot>> \o s_com}
TestHosts == {p \o b \o t : p \in HostPrefixes, b \in HostBases, t \in HostTails}

InitResolver ==
    /\ InitFor(SocialRun)
    /\ engine = "v3"

ResolverStart ==
    /\ rHost = <<>>
    /\ rHost' \in TestHosts
    /\ rOut' = [lookup |-> Unset, scan |-> Unset]
    /\ UNCHANGED <<engineVars, sideVars>>

\* lookupGroup(host, domainMap) is called
RunLookupGroup ==
    /\ rHost # <<>>
    /\ rOut.lookup = Unset
    /\ rOut' = [rOut EXCEPT !.lookup = lookupGroup(rHost)]
    /\ UNCHANGED <<engineVars, sideVars, rHost>>

\* getDomainGroup(host) is called
RunGetDomainGroup ==
    /\ rHost # <<>>
    /\ rOut.scan = Unset
    /\ rOut' = [rOut EXCEPT !.scan = getDomainGroup(rHost)]
    /\ UNCHANGED <<engineVars, sideVars, rHost>>

NextResolver ==
    \/ ResolverStart
    \/ RunLookupGroup
    \/ RunGetDomainGroup

SpecResolver == InitResolver /\ [][NextResolver]_vars

-----------------------------------------------------------------------------
(* Specification of the startup sequence of the IndexedDB engines           *)

InitStartup ==
    /\ InitFor(SocialRun)
    /\ engine \in {"v3", "v4"}

\* chrome.runtime.onInstalled / onStartup fires: await initialize()
ListenerFires(l) ==
    /\ boot.at[l] = "idle"
    /\ boot' = initialize(boot, l)
    /\ UNCHANGED <<engineVars, resolverVars, saver, roll, mig, filer, dispatched, tracker>>

\* a message arrives: ensureReady().then(...)
RequestArrives(r) ==
    /\ boot.at[r] = "idle"
    /\ boot' = ensureReady(boot, r)
    /\ UNCHANGED <<engineVars, resolverVars, saver, roll, mig, filer, dispatched, tracker>>

\* the storage environment check of initialize() settles: it passes and
\* loadState() is called, or it throws
StorageCheckSettles(c, ok) ==
    /\ boot.at[c] = "check"
    /\ boot' = IF ok THEN [boot EXCEPT !.at[c] = "load", !.loads = @ + 1]
               ELSE thrown(boot, c)
    /\ UNCHANGED <<engineVars, resolverVars, saver, roll, mig, filer, dispatched, tracker>>

\* loadState() settles: initialize() finishes, or the load rejects
LoadStateSettles(c, ok) ==
    /\ boot.at[c] = "load"
    /\ boot' = IF ok THEN initialized(boot, c) ELSE thrown(boot, c)
    /\ UNCHANGED <<engineVars, resolverVars, saver, roll, mig, filer, dispatched, tracker>>

\* await readyPromise resumes once the promise is resolved; the handler runs
\* and the response is sent
ReadyResumes(r) ==
    /\ boot.at[r] = "wait"
    /\ boot.readyPromise = "resolved"
    /\ boot' = [boot EXCEPT !.at[r] = "answered"]
    /\ UNCHANGED <<engineVars, resolverVars, saver, roll, mig, filer, dispatched, tracker>>

NextStartup ==
    \/ \E l \in Listeners : ListenerFires(l)
    \/ \E r \in Requests : RequestArrives(r)
    \/ \E c \in Callers, ok \in BOOLEAN : StorageCheckSettles(c, ok)
    \/ \E c \in Callers, ok \in BOOLEAN : LoadStateSettles(c, ok)
    \/ \E r \in Requests : ReadyResumes(r)

SpecStartup == InitStartup /\ [][NextStartup]_vars

-----------------------------------------------------------------------------
(* Specification of one day's usage counter of the IndexedDB engines        *)

InitRollover ==
    /\ InitFor(SocialRun)
    /\ engine \in {"v3", "v4"}

\* initialize() reaches loadState(): loadUsageForDate(today) is called
UsageLoadStarts ==
    /\ roll.loader = "idle"
    /\ roll' = [roll EXCEPT !.loader = "open"]
    /\ UNCHANGED <<engineVars, resolverVars, boot, saver, mig, filer, dispatched, tracker>>

\* store.get(date) of loadState's loadUsageForDate reads the usage store
UsageLoadGets ==
    /\ roll.loader = "open"
    /\ roll' = [roll EXCEPT !.loader = "got", !.got = roll.disk]
    /\ UNCHANGED <<engineVars, resolverVars, boot, saver, mig, filer, dispatched, tracker>>

\* loadState resumes: usage[today] = <what was read>; initialize() finishes
\* and the gate opens
UsageLoadResumes ==
    /\ roll.loader = "got"
    /\ roll' = [roll EXCEPT !.loader = "done", !.mem = roll.got, !.base = roll.got,
                            !.sum = 0, !.ready = TRUE]
    /\ UNCHANGED <<engineVars, resolverVars, boot, saver, mig, filer, dispatched, tracker>>

\* 'recordUsage' behind the gate: usage[today][host] += milliseconds, then
\* saveState()
UsageRecorded ==
    /\ roll.ready
    /\ roll.records < MaxRecords
    /\ roll' = usageSaveCall([roll EXCEPT !.mem = @ + 1, !.sum = @ + 1,
                                          !.records = @ + 1])
    /\ UNCHANGED <<engineVars, resolverVars, boot, saver, mig, filer, dispatched, tracker>>

\* saveUsageToIDB: store.put(usageData, date) clones usage[today] as it is now
UsagePut ==
    /\ roll.writer = "open"
    /\ roll' = [roll EXCEPT !.writer = "put", !.clone = roll.mem]
    /\ UNCHANGED <<engineVars, resolverVars, boot, saver, mig, filer, dispatched, tracker>>

\* the write transaction completes; finally: saving = false
UsageCommitted ==
    /\ roll.writer = "put"
    /\ roll' = [roll EXCEPT !.writer = "none", !.disk = roll.clone, !.saving = FALSE]
    /\ UNCHANGED <<engineVars, resolverVars, boot, saver, mig, filer, dispatched, tracker>>

\* the 'midnight' alarm fires (the alarm listener has no gate):
\* handleMidnight() calls loadUsageForDate(today)
MidnightFires ==
    /\ roll.midnight = "idle"
    /\ roll' = [roll EXCEPT !.midnight = "open"]
    /\ UNCHANGED <<engineVars, resolverVars, boot, saver, mig, filer, dispatched, tracker>>

\* store.get(date) of handleMidnight's loadUsageForDate reads the usage store
MidnightGets ==
    /\ roll.midnight = "open"
    /\ roll' = [roll EXCEPT !.midnight = "got", !.got = roll.disk]
    /\ UNCHANGED <<engineVars, resolverVars, boot, saver, mig, filer, dispatched, tracker>>

\* handleMidnight resumes: usage[today] = <what was read>; await saveState()
MidnightResumes ==
    /\ roll.midnight = "got"
    /\ roll' = usageSaveCall([roll EXCEPT !.midnight = "done", !.mem = roll.got])
    /\ UNCHANGED <<engineVars, resolverVars, boot, saver, mig, filer, dispatched, tracker>>

\* the service worker is torn down and started again: memory is lost, the
\* usage store is kept
WorkerRestarts ==
    /\ roll.kills < MaxKills
    /\ roll' = [RollCold(roll.disk) EXCEPT !.records = roll.records,
                                           !.kills = roll.kills + 1]
    /\ UNCHANGED <<engineVars, resolverVars, boot, saver, mig, filer, dispatched, tracker>>

NextRollover ==
    \/ UsageLoadStarts
    \/ UsageLoadGets
    \/ UsageLoadResumes
    \/ UsageRecorded
    \/ UsagePut
    \/ UsageCommitted
    \/ MidnightFires
    \/ MidnightGets
    \/ MidnightResumes
    \/ WorkerRestarts

SpecRollover == InitRollover /\ [][NextRollover]_vars

-----------------------------------------------------------------------------
(* Specification of the migration of persisted state                        *)

InitMigrate == InitFor(SocialRun)

\* storage holds the persisted state st when the worker starts
StateFound(st) ==
    /\ mig.stage = "none"
    /\ mig' = [stage |-> "stored", stored |-> st]
    /\ UNCHANGED <<engineVars, resolverVars, boot, saver, roll, filer, dispatched, tracker>>

\* loadState() reads it
StateLoaded ==
    /\ mig.stage = "stored"
    /\ mig' = [stage |-> "loaded", stored |-> mig.stored,
               loaded |-> loadedState(engine, mig.stored)]
    /\ UNCHANGED <<engineVars, resolverVars, boot, saver, roll, filer, dispatched, tracker>>

\* migrateState is applied to the persisted state, and to its own result
StateMigrated ==
    /\ mig.stage = "loaded"
    /\ mig' = [stage |-> "migrated", stored |-> mig.stored, loaded |-> mig.loaded,
               once |-> migrateState(engine, mig.stored),
               twice |-> migrateState(engine, migrateState(engine, mig.stored))]
    /\ UNCHANGED <<engineVars, resolverVars, boot, saver, roll, filer, dispatched, tracker>>

NextMigrate ==
    \/ \E st \in PersistedStates : StateFound(st)
    \/ StateLoaded
    \/ StateMigrated

SpecMigrate == InitMigrate /\ [][NextMigrate]_vars

-----------------------------------------------------------------------------
(* Specification of saving a state that may fail validation                 *)

InitValidate == InitFor(UsageRun)

NextValidate ==
    \/ \E h \in scenario.hosts : StorageCorrupted(h)
    \/ \E h \in scenario.hosts : \E s \in RecordSecs : RecordUsage(h, s)
    \/ Background

SpecValidate == InitValidate /\ [][NextValidate]_vars

-----------------------------------------------------------------------------
(* Specification of the file-save retries of the storage.local engine       *)

InitFileRetry ==
    /\ InitFor(SocialRun)
    /\ engine = "sl"

\* a handler calls saveState()
FileSaveRequested(setOk, fileOk, get) ==
    /\ filer.calls < MaxFileSaves
    /\ filer' = saveStateFile(filer, setOk, fileOk, get)
    /\ UNCHANGED <<engineVars, resolverVars, boot, saver, roll, mig, dispatched, tracker>>

\* alarm 'saveUsage': the retry count is reset when there are unsaved
\* changes, then saveState()
FileSaveUsageAlarm(setOk, fileOk, get) ==
    /\ filer.calls < MaxFileSaves
    /\ filer' = saveStateFile(
                    IF filer.unsavedChanges
                    THEN [filer EXCEPT !.fileSaveRetryCount = 0] ELSE filer,
                    setOk, fileOk, get)
    /\ UNCHANGED <<engineVars, resolverVars, boot, saver, roll, mig, dispatched, tracker>>

\* alarm 'retry-file-save': saveState(true)
FileRetryAlarm(setOk, fileOk, get) ==
    /\ filer.calls < MaxFileSaves
    /\ filer.retryIn # 0
    /\ filer' = saveStateFile([filer EXCEPT !.retryIn = 0], setOk, fileOk, get)
    /\ UNCHANGED <<engineVars, resolverVars, boot, saver, roll, mig, dispatched, tracker>>

\* message 'initializeState' (an export folder is selected): stateHealthy =
\* true; await saveState(true); clearErrorBadge()
FolderInitialized(setOk, fileOk, get) ==
    /\ filer.calls < MaxFileSaves
    /\ filer' = [saveStateFile([filer EXCEPT !.folder = TRUE, !.stateHealthy = TRUE],
                               setOk, fileOk, get)
                 EXCEPT !.badge = "", !.cleared = "initializeState"]
    /\ UNCHANGED <<engineVars, resolverVars, boot, saver, roll, mig, dispatched, tracker>>

NextFileRetry ==
    \/ \E a, b \in BOOLEAN, g \in GetOutcomes : FileSaveRequested(a, b, g)
    \/ \E a, b \in BOOLEAN, g \in GetOutcomes : FileSaveUsageAlarm(a, b, g)
    \/ \E a, b \in BOOLEAN, g \in GetOutcomes : FileRetryAlarm(a, b, g)
    \/ \E a, b \in BOOLEAN, g \in GetOutcomes : FolderInitialized(a, b, g)

SpecFileRetry == InitFileRetry /\ [][NextFileRetry]_vars

-----------------------------------------------------------------------------
(* Specification of the save serialisation                                  *)

InitSave == InitFor(SocialRun)

\* the next call of saveState in this run
FreeCall(c) ==
    /\ saver.at[c] = "idle"
    /\ \A d \in SaveCalls : d < c => saver.at[d] # "idle"

\* a handler or an alarm changes the in-memory state and calls saveState()
SaveRequested(c) ==
    /\ FreeCall(c)
    /\ saver' = saveStateCall(engine, [saver EXCEPT !.version = @ + 1], c)
    /\ UNCHANGED <<engineVars, resolverVars, boot, roll, mig, filer, dispatched, tracker>>

\* the retry timer of the storage.local engine fires: saveQueue = null;
\* saveState(force)
SaveQueueFires(c) ==
    /\ FreeCall(c)
    /\ saver.saveQueue
    /\ saver' = saveStateCall(engine, [saver EXCEPT !.saveQueue = FALSE], c)
    /\ UNCHANGED <<engineVars, resolverVars, boot, roll, mig, filer, dispatched, tracker>>

\* saveStateToIDB: openDB() resolves and the six puts clone the state as it
\* is now
StatePut(c) ==
    /\ saver.at[c] = "open"
    /\ saver' = [saver EXCEPT !.at[c] = "state", !.taken[c] = saver.version]
    /\ UNCHANGED <<engineVars, resolverVars, boot, roll, mig, filer, dispatched, tracker>>

\* the write of the state settles; more says whether a second write follows
\* (saveUsageToIDB when usage[today] exists, the offscreen file write when a
\* directory handle is set)
StateWriteSettles(c, ok, more) ==
    /\ saver.at[c] = "state"
    /\ saver' =
         IF ~ok THEN writeFailed(engine, saver, c)
         ELSE IF more THEN [saver EXCEPT !.stored = saver.taken[c], !.at[c] = "usage"]
         ELSE [released(saver, c, "returned") EXCEPT !.stored = saver.taken[c]]
    /\ UNCHANGED <<engineVars, resolverVars, boot, roll, mig, filer, dispatched, tracker>>

\* the second write settles
SecondWriteSettles(c, ok) ==
    /\ saver.at[c] = "usage"
    /\ saver' = IF ok THEN released(saver, c, "returned")
                ELSE writeFailed(engine, saver, c)
    /\ UNCHANGED <<engineVars, resolverVars, boot, roll, mig, filer, dispatched, tracker>>

\* the catch block of the storage.local engine has read the state back
VerifySettles(c) ==
    /\ saver.at[c] = "verify"
    /\ saver' = released(saver, c, "returned")
    /\ UNCHANGED <<engineVars, resolverVars, boot, roll, mig, filer, dispatched, tracker>>

NextSave ==
    \/ \E c \in SaveCalls : SaveRequested(c)
    \/ \E c \in SaveCalls : SaveQueueFires(c)
    \/ \E c \in SaveCalls : StatePut(c)
    \/ \E c \in SaveCalls, ok \in BOOLEAN, more \in BOOLEAN : StateWriteSettles(c, ok, more)
    \/ \E c \in SaveCalls, ok \in BOOLEAN : SecondWriteSettles(c, ok)
    \/ \E c \in SaveCalls : VerifySettles(c)

SpecSave == InitSave /\ [][NextSave]_vars

-----------------------------------------------------------------------------
(* Claims                                                                   *)

\* the engine state a request may or may not touch
policyState == <<sessions, quotas, lunchUsed, sfa, usage, viewSessions, alarms,
                 idbState, idbUsage>>

\* C1: a checkAccess for a host that matches no policy domain is answered
\* allow = true, whatever the time and the stored state, and changes nothing
C1_UnmatchedHostAllowed ==
    [][ (ev'.op = "checkAccess" /\ Classify(engine, ev'.host) = NoGroup)
            => /\ ev'.dec.allow
               /\ ev'.ok
               /\ UNCHANGED policyState ]_vars

C1_Witness ==
    /\ ev.op = "checkAccess"
    /\ Classify(engine, ev.host) = NoGroup
    /\ ev.dec.allow
    /\ usage # Empty

\* the domains of the policy table a host falls under: equal to the domain, or
\* ending with a dot followed by the domain
DomainsOf(host) ==
    {d \in DOMAIN domainMap : host = d \/ endsWith(host, <<Dot>> \o d)}

GroupsOf(host) == {domainMap[d] : d \in DomainsOf(host)}

Labels(s) == Len(split(s))

\* C2: each resolver returns a group exactly for a host that equals a policy
\* domain or ends with '.' + domain, and then that domain's group; reddit.com and
\* www.reddit.com resolve to social and evilreddit.com to no group; lookupGroup
\* never tries a single-label suffix; the two resolvers agree on every host
C2_ResolversMatchByLabel ==
    /\ rOut # <<>> /\ rOut.lookup # Unset =>
          /\ (rOut.lookup # NoGroup) <=> (DomainsOf(rHost) # {})
          /\ rOut.lookup # NoGroup => GroupsOf(rHost) = {rOut.lookup}
          /\ \A n \in DOMAIN TriedSuffixes(rHost) : Labels(TriedSuffixes(rHost)[n]) >= 2
          /\ rHost \in {s_reddit, s_www \o s_reddit} => rOut.lookup = "social"
          /\ rHost = s_evil \o s_reddit => rOut.lookup = NoGroup
    /\ rOut # <<>> /\ rOut.scan # Unset =>
          /\ (rOut.scan # NoGroup) <=> (DomainsOf(rHost) # {})
          /\ rOut.scan # NoGroup => GroupsOf(rHost) = {rOut.scan}
          /\ rHost \in {s_reddit, s_www \o s_reddit} => rOut.scan = "social"
          /\ rHost = s_evil \o s_reddit => rOut.scan = NoGroup
    /\ rOut # <<>> /\ rOut.lookup # Unset /\ rOut.scan # Unset => rOut.lookup = rOut.scan

C2_Witness ==
    /\ rHost = s_www \o s_reddit
    /\ rOut.lookup = "social"
    /\ rOut.scan = "social"

\* an entry of sessions under key k that has not expired at t
liveEntry(k, t) == k \in DOMAIN sessions /\ sessions[k].expiresAt > t

\* C3: whenever sessions holds an entry for a classified host with expiresAt > now,
\* checkAccess answers allow = true with remainingMs = expiresAt - now, whatever
\* the policy-specific state is
C3_LiveSessionWins ==
    [][ (ev'.op = "checkAccess" /\ Classify(engine, ev'.host) # NoGroup
            /\ liveEntry(ev'.host, now))
            => /\ ev'.dec.allow
               /\ ev'.dec.remainingMs = sessions[ev'.host].expiresAt - now ]_vars

\* a streaming host is answered from a live session although the day's allowance
\* is used up (v3, storage.local) or the evening block is on (v4)
C3_Witness ==
    /\ ev.op = "checkAccess"
    /\ Classify(engine, ev.host) = "streaming"
    /\ liveEntry(ev.host, now)
    /\ ev.dec.allow
    /\ ev.dec.remainingMs = sessions[ev.host].expiresAt - now
    /\ \/ engine = "v4" /\ isEveningHours(now)
       \/ engine # "v4" /\ getDateKey(now) \in DOMAIN sfa
                        /\ now - sfa[getDateKey(now)] >= HOUR

\* the key startSession files a session under
keyOf(host, type) == IF engine = "v4" /\ type = "lunch" THEN "streaming" ELSE host

\* C4: a startSession for a key that already has an entry leaves one entry for the
\* key, started now and expiring at the later call's now + durationMs, and one
\* pending alarm 'session-<key>' set to that expiry
C4_StartSessionOverwrites ==
    [][ ev'.op = "startSession"
            => LET key == keyOf(ev'.host, ev'.type)
               IN  /\ key \in DOMAIN sessions'
                   /\ sessions'[key].startedAt = now
                   /\ sessions'[key].expiresAt = ev'.arg
                   /\ ev'.arg - now \in {k[2] : k \in StartKinds(Classify(engine, ev'.host))}
                   /\ key \in DOMAIN alarms'
                   /\ alarms'[key] = ev'.arg
                   /\ \A k \in DOMAIN sessions : k # key => k \in DOMAIN sessions' ]_vars

\* the second lunch session of a day in the v4 engine, started after the clock moved
C4_Witness ==
    /\ ev.op = "startSession"
    /\ engine = "v4"
    /\ ev.type = "lunch"
    /\ getTotalLunchCount(usage, getDateKey(now)) = 2
    /\ spent.ticks >= 1
    /\ sessions["streaming"].startedAt = now
    /\ sessions["streaming"].expiresAt = ev.arg
    /\ alarms["streaming"] = ev.arg

\* the timestamps of the quota window q that lie within the last w ms at t
recent(q, t, w) == SelectSeq(q, LAMBDA ts : ts > t - w)

hnCfg == POLICIES(engine).hackerNews

\* a checkAccess step for the Hacker News host in an engine that has the quota policy
QuotaCheck ==
    /\ ev'.op = "checkAccess"
    /\ Classify(engine, ev'.host) = "hackerNews"
    /\ engine # "v4"

\* what a quota auto-grant leaves behind
QuotaGranted ==
    /\ quotas' = Append(recent(quotas, now, hnCfg.windowMs), now)
    /\ sessions' = Put(sessions, ev'.host, Session("hnVisit", now, now + hnCfg.visitDurationMs))
    /\ alarms' = Put(alarms, ev'.host, now + hnCfg.visitDurationMs)
    /\ ev'.ok => ev'.dec.allow /\ ev'.dec.remainingMs = hnCfg.visitDurationMs

firstAccessOf(us, fa, day) ==
    IF engine = "v4" THEN getGroupFirstAccess(us, "streaming", day)
    ELSE IF day \in DOMAIN fa THEN fa[day] ELSE None

\* a checkAccess step for a streaming host with no live session, inside work hours
StreamingCheck ==
    /\ ev'.op = "checkAccess"
    /\ ev'.ok
    /\ Classify(engine, ev'.host) = "streaming"
    /\ ~liveEntry(ev'.host, now)
    /\ ~liveEntry("streaming", now)
    /\ isWorkHours(POLICIES(engine).streaming, now)

\* C6: for a streaming host with no live session inside work hours, the first
\* evaluateAccess of the day sets the day's firstAccess to now and is Allowed with
\* the full hour; a later one at firstAccess + d is Allowed with allowanceRemaining
\* = 1h - d when d < 1h and Denied when d >= 1h; firstAccess is never overwritten
C6_AllowanceFromFirstAccess ==
    [][ StreamingCheck
            => LET today == getDateKey(now)
                   fa == firstAccessOf(usage, sfa, today)
               IN  IF fa = None
                   THEN /\ firstAccessOf(usage', sfa', today) = now
                        /\ ev'.dec.allow
                        /\ ev'.dec.allowanceRemaining = HOUR
                   ELSE /\ firstAccessOf(usage', sfa', today) = fa
                        /\ now - fa < HOUR => /\ ev'.dec.allow
                                              /\ ev'.dec.allowanceRemaining = HOUR - (now - fa)
                        /\ now - fa >= HOUR => ~ev'.dec.allow ]_vars

\* the views and the time recorded in memory for (day, host)
ViewsOf(us, day, host) ==
    IF Has(DayOf(us, day), host) /\ DayOf(us, day)[host].shape = "record"
    THEN DayOf(us, day)[host].views ELSE 0

\* usage was recorded for the host during the 60 seconds before now
recordedLately(host) == host \in DOMAIN lastRec /\ now - lastRec[host] <= 60 * SEC

\* C7: in the v4 engine every recordUsage(host, s) adds 1000 * s to the day's time
\* of the host, and adds one view exactly when no usage was recorded for the host
\* during the preceding 60 seconds
C7_UsageTimeAndViews ==
    [][ (ev'.op = "recordUsage" /\ engine = "v4")
            => LET today == getDateKey(now)
                   h == ev'.host
               IN  /\ TimeOf(usage', today, h) = TimeOf(usage, today, h) + 1000 * ev'.arg
                   /\ ViewsOf(usage', today, h)
                        = ViewsOf(usage, today, h) + (IF recordedLately(h) THEN 0 ELSE 1) ]_vars

\* a midnight-alarm step of a loaded engine, handled on the day the alarm was
\* set for, whose own writes succeed
Rollover ==
    /\ proc = "ready"
    /\ ev'.op = "alarmMidnight"
    /\ ev'.ok
    /\ getDateKey(midnightAt) = getDateKey(now)

\* C8: at the midnight rollover from day D into D+1 the in-memory usage of D is
\* flushed to the store and later recordUsage calls leave it alone, the lunch-used
\* and first-access marks read for D+1 are empty, live view sessions are cleared,
\* and (IndexedDB engines) the usage of D+1 starts from its persisted value
C8_MidnightRollover ==
    [][ /\ Rollover
            => LET today == getDateKey(now)
                   D == today - 1
               IN  /\ Has(usage, D) => DayOf(idbUsage', D) = usage[D]
                   /\ engine # "v4" => (today \notin lunchUsed' /\ ~Has(sfa', today))
                   /\ (engine = "v4" /\ ~Has(idbUsage, today))
                        => /\ getTotalLunchCount(usage', today) = 0
                           /\ getGroupFirstAccess(usage', "streaming", today) = None
                   /\ viewSessions' = Empty
                   /\ engine # "sl" => DayOf(usage', today) = DayOf(idbUsage, today)
        /\ (proc = "ready" /\ ev'.op = "recordUsage" /\ now < midnightAt)
            => \A d \in DOMAIN idbUsage :
                  d < getDateKey(now) => (Has(idbUsage', d) /\ idbUsage'[d] = idbUsage[d]) ]_vars

C9_LiveSessionLoaded ==
    /\ ev.op = "loadState"
    /\ \E k \in DOMAIN idbState.sessions :
          /\ idbState.sessions[k].expiresAt > now
          /\ Has(sessions, k)

\* the load that ends a restart on the day of the teardown, nothing but the
\* restart having touched the engine in between
RestartLoad ==
    /\ ev'.op = "loadState"
    /\ snap # <<>>
    /\ snap.day = getDateKey(now)

\* C10: a restart of the service worker on the same day (teardown, initialize,
\* loadState) brings back every persisted unexpired session unchanged, and the
\* day's quota timestamps, lunch-used mark and first-access mark as persisted
C10_RestartKeepsDayState ==
    [][ RestartLoad
            => LET today == getDateKey(now)
               IN  /\ \A k \in DOMAIN snap.state.sessions :
                         snap.state.sessions[k].expiresAt > now
                            => (Has(sessions', k) /\ sessions'[k] = snap.state.sessions[k])
                   /\ engine # "v4"
                        => /\ quotas' = snap.state.quotas
                           /\ (today \in lunchUsed') = (today \in snap.state.lunchUsed)
                           /\ DayOf(sfa', today) = DayOf(snap.state.sfa, today)
                   /\ engine = "v4"
                        => /\ getTotalLunchCount(usage', today)
                                = getTotalLunchCount(snap.usage, today)
                           /\ getGroupFirstAccess(usage', "streaming", today)
                                = getGroupFirstAccess(snap.usage, "streaming", today) ]_vars

\* a successful checkAccess step for a social host that has no live session
SocialCheck ==
    /\ ev'.op = "checkAccess"
    /\ ev'.ok
    /\ Classify(engine, ev'.host) = "social"
    /\ ~liveEntry(ev'.host, now)

\* C11: for a social host with no live session evaluateAccess answers Denied with
\* the fixed reason and with graceDurationMs = the configured social grace
\* duration, at every hour of every day of the week, in every engine
C11_SocialAlwaysDenied ==
    [][ SocialCheck
            => /\ ~ev'.dec.allow
               /\ ev'.dec.reason = "always"
               /\ ev'.dec.graceDurationMs = POLICIES(engine).social.graceDurationMs ]_vars

\* a successful checkAccess step of the v4 engine for a streaming host with no
\* live session, neither its own nor the shared lunch session
V4StreamingCheck ==
    /\ engine = "v4"
    /\ ev'.op = "checkAccess"
    /\ ev'.ok
    /\ Classify(engine, ev'.host) = "streaming"
    /\ ~liveEntry(ev'.host, now)
    /\ ~liveEntry("streaming", now)

\* the local hour is at or after 21:00 or before 02:00
EveningWindow(t) == getHours(t) \in {21, 22, 23, 0, 1}

\* Monday to Friday, 09:00 to 16:59 (the v4 work hours)
V4WorkWindow(t) == getDay(t) \in 1 .. 5 /\ getHours(t) \in 9 .. 16

\* C12: in the v4 engine a streaming host with no live session is Denied with
\* graceDurationMs = eveningGraceDurationMs whenever the local hour is >= 21 or
\* < 2, on every day of the week, and is Allowed unconditionally when the hour is
\* in neither the evening window nor work hours
C12_EveningBlock ==
    [][ V4StreamingCheck
            => /\ EveningWindow(now)
                    => /\ ~ev'.dec.allow
                       /\ ev'.dec.graceDurationMs = PoliciesV4.streaming.eveningGraceDurationMs
               /\ (~EveningWindow(now) /\ ~V4WorkWindow(now))
                    => /\ ev'.dec.allow
                       /\ ev'.dec.allowanceRemaining = None
                       /\ ev'.dec.remainingMs = None ]_vars

\* the v4 engine has just denied a streaming host at 1 am on a Saturday with the
\* evening grace duration
C12_Witness ==
    /\ engine = "v4"
    /\ ev.op = "checkAccess"
    /\ ev.host = "youtube.com"
    /\ getHours(now) = 1
    /\ getDay(now) = 6
    /\ ~ev.dec.allow
    /\ ev.dec.graceDurationMs = 30 * MIN

\* a successful checkAccess step that denies a streaming host for its used-up
\* allowance: no live session, denied, and not the evening block of the v4 engine
AllowanceDenial ==
    /\ ev'.op = "checkAccess"
    /\ ev'.ok
    /\ Classify(engine, ev'.host) = "streaming"
    /\ ~liveEntry(ev'.host, now)
    /\ ~(engine = "v4" /\ liveEntry("streaming", now))
    /\ ~(engine = "v4" /\ EveningWindow(now))
    /\ ~ev'.dec.allow

\* the local hour is inside the engine's configured lunch window
LunchWindowOf(e, t) ==
    /\ getHours(t) >= POLICIES(e).streaming.lunchStart
    /\ getHours(t) < POLICIES(e).streaming.lunchEnd

\* the day's lunch sessions are below the cap: lunchUsed[today] unset (v3,
\* storage.local), lunchCount < maxLunchSessions (v4)
LunchBelowCap ==
    IF engine = "v4"
    THEN getTotalLunchCount(usage, getDateKey(now)) < PoliciesV4.streaming.maxLunchSessions
    ELSE getDateKey(now) \notin lunchUsed

\* C13: when evaluateAccess denies a streaming host because the allowance is used
\* up, the decision has lunchAvailable = true exactly when the local hour is in
\* the lunch window and the day's lunch sessions are below the cap
C13_LunchAvailableIff ==
    [][ AllowanceDenial
            => (ev'.dec.lunchAvailable <=> (LunchWindowOf(engine, now) /\ LunchBelowCap)) ]_vars

\* an allowance denial inside the lunch window that offers no lunch session
\* because the day's lunch sessions are used up
C13_Witness ==
    /\ ev.op = "checkAccess"
    /\ Classify(engine, ev.host) = "streaming"
    /\ ~ev.dec.allow
    /\ ~ev.dec.lunchAvailable
    /\ LunchWindowOf(engine, now)
    /\ ~LunchBelowCap
    /\ ~liveEntry("youtube.com", now)
    /\ ~liveEntry("streaming", now)

\* an allowance denial that offers a lunch session
C13_LunchOffered ==
    /\ ev.op = "checkAccess"
    /\ ~ev.dec.allow
    /\ ev.dec.lunchAvailable

\* a successful startSession step that creates a lunch session, sent from a
\* blocked page that showed the lunch button today
LunchStart ==
    /\ ev'.op = "startSession"
    /\ ev'.type = "lunch"
    /\ ev'.ok
    /\ pageLunch = getDateKey(now)

\* C14: within one local day the lunch sessions created never exceed the cap (1
\* in the v3 and storage.local engines, 3 in v4) and are created only inside the
\* lunch window: every lunch session is created inside the window while the
\* day's lunch sessions are still below the cap
C14_LunchSessionsCapped ==
    [][ LunchStart => (LunchWindowOf(engine, now) /\ LunchBelowCap) ]_vars

\* a checkAccess or startSession step of a loaded engine that has the quota policy
QuotaRequest ==
    /\ engine # "v4"
    /\ proc = "ready"
    /\ ev'.op \in {"checkAccess", "startSession"}

\* C15: after any sequence of checkAccess and startSession requests, the quota
\* timestamps of the last windowMs never number more than maxVisits (every
\* quota-visit session started leaves one timestamp): no request takes the
\* window from at most maxVisits timestamps to more
C15_QuotaWindowBounded ==
    [][ (QuotaRequest /\ Len(recent(quotas, now, hnCfg.windowMs)) <= hnCfg.maxVisits)
            => Len(recent(quotas', now, hnCfg.windowMs)) <= hnCfg.maxVisits ]_vars

\* the operations the request handler serves
RequestOps ==
    {"checkAccess", "startSession", "recordUsage", "recordTempAccess", "getUsage",
     "getCurrentSite"}

\* C16: no request handler reads or changes sessions, quotas, day counters or
\* usage before the startup loadState of the current process lifetime is done:
\* every request is handled by a process that has loaded its state
C16_RequestsAfterLoad ==
    [][ ev'.op \in RequestOps => proc = "ready" ]_vars

\* C17: within one process lifetime the startup sequence runs at most once,
\* for every interleaving of onInstalled, onStartup and of the messages that
\* call ensureReady: loadState is never called a second time.
C17_InitializeOnce == boot.loads <= 1

\* a message is stranded: it awaits readyPromise, the promise is still
\* pending, no call of initialize() is running and no listener is left to
\* start one, so that no step of the process can resolve the promise
Stranded(r) ==
    /\ boot.at[r] = "wait"
    /\ boot.readyPromise = "pending"
    /\ \A c \in Callers : boot.at[c] \notin {"check", "load"}
    /\ \A l \in Listeners : boot.at[l] # "idle"

\* C18: every request that arrives before readiness receives a response, an
\* error response when initialization failed; in finite-run form: no request
\* is ever left waiting on a ready promise that nothing can settle any more.
C18_NoRequestStranded == \A r \in Requests : ~Stranded(r)

\* C19: at most one saveState execution is between its first and its last
\* durable write at any time, for every interleaving of the callers: a second
\* call never starts writing while the flag is held, and the flag is released
\* on the success path and on the failure path.
C19_OneSaveAtATime ==
    /\ Cardinality(InFlight(saver)) <= 1
    /\ saver.saving <=> InFlight(saver) # {}

\* a call was turned away at the flag while another call is writing, after an
\* earlier call failed and released the flag
C19_Witness ==
    /\ saver.failed
    /\ \E c, d \in SaveCalls :
         /\ saver.at[c] \in {"state", "usage"}
         /\ saver.at[d] = "skipped"
         /\ d > c

\* nothing of saveState is left to run: no call holds the flag and no retry
\* timer is pending
SaveQuiet == ~saver.saving /\ ~saver.saveQueue /\ InFlight(saver) = {}

\* C20: when saveState is requested while a save is in progress, one further
\* save runs after it, so that the state as of the last request reaches
\* durable storage and no request is dropped; in finite-run form: once
\* nothing of saveState is left to run and no write failed, durable storage
\* holds the state of the last request.
C20_LastRequestSaved ==
    (SaveQuiet /\ ~saver.failed) => saver.stored = saver.version

\* a recordUsage request of a loaded engine whose save meets a failing
\* durable write
RecordSaveFails == proc = "ready" /\ ev'.op = "recordUsage" /\ ~storageOk

\* a recordUsage request of a loaded engine whose save is written
RecordSaved == proc = "ready" /\ ev'.op = "recordUsage" /\ storageOk

\* C21: when the save triggered by recordUsage fails, the caller receives
\* success: false, the in-memory counter of the day and host still includes
\* the delta, and the next successful save of a recordUsage writes the day's
\* record as it is in memory.
C21_FailedSaveKeepsDelta ==
    [][ /\ RecordSaveFails =>
             /\ ~ev'.ok
             /\ TimeOf(usage', getDateKey(now), ev'.host) =
                    TimeOf(usage, getDateKey(now), ev'.host) + ev'.arg * 1000
        /\ RecordSaved =>
             DayOf(idbUsage', getDateKey(now)) = DayOf(usage', getDateKey(now)) ]_vars

\* C22: for every interleaving of recordUsage with saveState, the midnight
\* rollover and state loading at their awaits, the in-memory usage total of
\* the day equals the value loaded for it plus the sum of the deltas recorded:
\* no handler replaces usage[day] with an older snapshot.
C22_UsageAccumulates == roll.ready => roll.mem = roll.base + roll.sum

\* the handler of the alarm 'session-<key>' ran to its end
SessionAlarmDone == ev'.op = "alarmSession" /\ ev'.ok

\* the open tabs the alarm of a key is about: the tabs on that host, or, for
\* the shared key 'streaming', the tabs on a host of the streaming group
TabsOf(key) ==
    IF key = "streaming"
    THEN {h \in OpenTabs : Classify(engine, h) = "streaming"}
    ELSE {h \in OpenTabs : h = key}

Upgraded(st, st2) ==
    /\ st2.dataVersion = currentVersion(engine)
    /\ st2.sessions = st.sessions
    /\ st2.lunchUsed = st.lunchUsed

\* C24: on load every persisted state passes through migrateState: whatever
\* its dataVersion (missing and unknown ones are taken as the oldest), the
\* state loadState goes on with carries the current dataVersion and keeps all
\* other fields, and migrateState applied twice equals migrateState applied
\* once.
C24_LoadMigrates ==
    /\ mig.stage \in {"loaded", "migrated"} => Upgraded(mig.stored, mig.loaded)
    /\ mig.stage = "migrated" =>
         /\ mig.loaded = mig.once
         /\ mig.twice = mig.once

\* a step of a handler that calls saveState
SavingOps ==
    {"recordUsage", "startSession", "alarmSession", "alarmSaveUsage",
     "alarmRetryFileSave", "alarmMidnight"}

\* C25: saveState never writes to durable storage a state for which
\* validateState returns false, on any call path, and when validation fails
\* the caller of saveState observes the failure.
C25_InvalidStateNeverWritten ==
    [][ (ev'.op \in SavingOps /\ ~validateState(engine, CurMem')) =>
          /\ idbUsage' = idbUsage
          /\ idbState' = idbState
          /\ ev'.op = "recordUsage" => ~ev'.ok ]_vars

\* C26: in the storage.local engine fileSaveRetryCount never exceeds
\* MAX_FILE_SAVE_RETRIES; between two successful file saves at most three
\* 'retry-file-save' alarms are scheduled, with delays of 2, 4 and 8 seconds;
\* and once the retries are exhausted the error badge stays set until a later
\* save succeeds.
C26_FileRetriesBounded ==
    [][ /\ filer'.fileSaveRetryCount <= MAX_FILE_SAVE_RETRIES
        /\ filer'.scheduled <= MAX_FILE_SAVE_RETRIES
        /\ filer'.retryIn \in {0, 2, 4, 8}
        /\ (filer.badge = "File not saved - local data safe" /\ filer'.badge = "")
              => filer'.cleared = "save" ]_vars

\* C27: in the storage.local engine, whenever the primary write
\* chrome.storage.local.set fails during saveState, after saveState returns
\* stateHealthy is false and unsavedChanges is true, also when an older state
\* is stored under the key; they become true and false again only after a
\* save whose primary write succeeded.
C27_PrimaryFailureFlagged ==
    filer.primaryFailed => (~filer.stateHealthy /\ filer.unsavedChanges)

\* C28: getSiteInfo is read-only: for every host and every state, handling
\* 'getCurrentSite' leaves sessions, the quota window, the day counters
\* (first access, lunch use) and usage exactly as they were.
C28_SiteInfoReadOnly ==
    [][ ev'.op = "getCurrentSite" =>
          /\ sessions' = sessions
          /\ quotas' = quotas
          /\ sfa' = sfa
          /\ lunchUsed' = lunchUsed
          /\ usage' = usage ]_vars

\* the day's first work-hours check of a streaming host with no live session
FirstCheckOfDay ==
    /\ StreamingCheck
    /\ firstAccessOf(usage, sfa, getDateKey(now)) \in {None, 0}

\* a streaming check in the lunch window, an hour or more after the day's first
\* access, on a day whose own lunch sessions are below the cap
LunchDue ==
    /\ StreamingCheck
    /\ firstAccessOf(usage, sfa, getDateKey(now)) \notin {None, 0}
    /\ now - firstAccessOf(usage, sfa, getDateKey(now)) >= HOUR
    /\ LunchWindowOf(engine, now)
    /\ LunchBelowCap

\* a successful check of a host none of whose session entries is live
NoLiveSessionCheck ==
    /\ ev'.op = "checkAccess"
    /\ ev'.ok
    /\ ~liveEntry(ev'.host, now)
    /\ ~liveEntry("streaming", now)

\* the decision of the same check made with no session entry at all
DecisionWithoutSessions ==
    evaluateAccess(engine, ev'.host, now, [CurMem EXCEPT !.sessions = Empty], alarms).dec

SharedSessionCheck ==
    /\ engine = "v4"
    /\ ev'.op = "checkAccess"
    /\ ev'.ok
    /\ Classify(engine, ev'.host) = "streaming"
    /\ liveEntry("streaming", now)

\* C30: in the v4 engine, whenever sessions['streaming'] has expiresAt > now,
\* evaluateAccess of every streaming-group host returns allow = true, also when
\* sessions still holds an expired, not yet purged entry under the host's own key.
C30_SharedSessionAllows ==
    [][ SharedSessionCheck => ev'.dec.allow ]_vars

\* C31: a session with expiresAt <= now is absent for every read, purged or
\* not: a remainingMs answered by evaluateAccess is > 0 and is that of a live
\* entry, getSiteInfo reports a session only for a live entry, and the startup
\* sweep agrees with the lazy check on expiresAt = now (every entry loadState
\* keeps is one the lazy check takes as live).
C31_ExpiredSessionAbsent ==
    [][ /\ (ev'.op = "checkAccess" /\ ev'.ok /\ ev'.dec.remainingMs # None) =>
              /\ ev'.dec.remainingMs > 0
              /\ \E k \in DOMAIN sessions' :
                    /\ sessions'[k].expiresAt > now
                    /\ ev'.dec.remainingMs = sessions'[k].expiresAt - now
        /\ \A h \in scenario.hosts :
              sessionRemaining(engine, h, now', CurMem') # None =>
                   \E k \in DOMAIN sessions' : sessions'[k].expiresAt > now'
        /\ ev'.op = "loadState" =>
              \A k \in DOMAIN sessions' : sessions'[k].expiresAt > now ]_vars

\* a successful check of the Hacker News host in an engine with the quota policy
QuotaHostCheck ==
    /\ engine # "v4"
    /\ ev'.op = "checkAccess"
    /\ ev'.ok
    /\ Classify(engine, ev'.host) = "hackerNews"

\* C32: after any evaluateAccess of the Hacker News host, also one answered by
\* the active-session check, every timestamp t left in the quota window has
\* now - t < windowMs.
C32_QuotaWindowPruned ==
    [][ QuotaHostCheck =>
          \A i \in 1 .. Len(quotas') : now - quotas'[i] < hnCfg.windowMs ]_vars

\* C33: evaluateAccess creates or changes a session entry only for the Hacker
\* News host with a free quota slot (and no live session); for social and
\* streaming hosts every evaluateAccess leaves the sessions map, the quota
\* window and the pending expiry alarms unchanged.
C33_OnlyQuotaAutoGrants ==
    [][ ev'.op = "checkAccess" =>
          /\ Classify(engine, ev'.host) \in {"social", "streaming"} =>
                (sessions' = sessions /\ quotas' = quotas /\ alarms' = alarms)
          /\ sessions' # sessions =>
                /\ engine # "v4"
                /\ Classify(engine, ev'.host) = "hackerNews"
                /\ ~liveEntry(ev'.host, now)
                /\ Len(recent(quotas, now, hnCfg.windowMs)) < hnCfg.maxVisits ]_vars

\* the quota auto-grant has just stored a session for the Hacker News host, while
\* a streaming host whose allowance clock was started by a check has none
C33_Witness ==
    /\ ev.op = "checkAccess"
    /\ ev.host = "news.ycombinator.com"
    /\ Has(sessions, "news.ycombinator.com")
    /\ sessions["news.ycombinator.com"].type = "hnVisit"
    /\ sessions["news.ycombinator.com"].startedAt = now
    /\ Has(sfa, getDateKey(now))
    /\ ~Has(sessions, "youtube.com")
    /\ ~Has(sessions, "www.reddit.com")

\* C34: every session entry stored by startSession or by the quota auto-grant
\* has expiresAt > startedAt, for every durationMs a caller can send, the
\* graceMs = 0 of a blocked page whose denial carried no graceDurationMs
\* included.
C34_ExpiryAfterStart ==
    \A k \in DOMAIN sessions : sessions[k].expiresAt > sessions[k].startedAt

\* an alarm handled by a restarted process before loadState has run
ColdAlarm ==
    /\ proc = "cold"
    /\ ev'.op \in {"alarmSaveUsage", "alarmMidnight", "alarmSession"}

\* what was persisted is still persisted after the step: the live sessions
\* (but the one the session alarm is for), the quota timestamps, the current
\* day's counters and the usage records
PersistedKept ==
    /\ \A k \in DOMAIN idbState.sessions :
          \/ idbState.sessions[k].expiresAt <= now
          \/ ev'.op = "alarmSession" /\ ev'.host = k
          \/ k \in DOMAIN idbState'.sessions /\ idbState'.sessions[k] = idbState.sessions[k]
    /\ idbState'.quotas = idbState.quotas
    /\ getDateKey(now) \in idbState.lunchUsed => getDateKey(now) \in idbState'.lunchUsed
    /\ Has(idbState.sfa, getDateKey(now)) =>
          /\ Has(idbState'.sfa, getDateKey(now))
          /\ idbState'.sfa[getDateKey(now)] = idbState.sfa[getDateKey(now)]
    /\ \A d \in DOMAIN idbUsage : d \in DOMAIN idbUsage' /\ idbUsage'[d] = idbUsage[d]

\* C35: when an alarm (saveUsage, midnight or session-<key>) is the first event
\* delivered to a restarted process, its handler does not write a state that
\* lacks the sessions, quota timestamps, day counters or usage persisted before
\* the restart.
C35_ColdAlarmKeepsPersisted ==
    [][ ColdAlarm => PersistedKept ]_vars

\* a check at the very start of the work day: whichever check of the day it is,
\* no access inside work hours was made before this instant
WorkDayOpens ==
    /\ V4StreamingCheck
    /\ V4WorkWindow(now)
    /\ getHours(now) = PoliciesV4.streaming.workStart
    /\ now % HOUR = 0

\* C36: in the v4 engine the first evaluateAccess of a streaming host inside
\* work hours on a day is Allowed with the full one-hour allowance, whatever
\* usage was recorded for streaming hosts earlier that day outside work hours
\* (checked for the checks made at the instant work hours begin).
C36_AllowanceStartsInWorkHours ==
    [][ WorkDayOpens => (ev'.dec.allow /\ ev'.dec.allowanceRemaining = HOUR) ]_vars

\* the usage records (objects, not legacy numbers or the lunch counter) of a day
RecordsOf(us, day) ==
    {h \in DOMAIN DayOf(us, day) : DayOf(us, day)[h].shape = "record"}

\* firstAccess of a record is set (neither null nor 0)
FirstSet(rec) == rec.firstAccess # None /\ rec.firstAccess # 0

\* C37: in the v4 engine, after any sequence of recordUsage calls and state
\* loads, no usage record of the current day has a firstAccess whose local hour
\* is < 6; a firstAccess that is set is not changed by a later recordUsage; and
\* firstAccess <= lastAccess whenever both are set.
C37_FirstAccessAfterSix ==
    [][ engine = "v4" =>
          /\ \A h \in RecordsOf(usage', getDateKey(now')) :
                FirstSet(usage'[getDateKey(now')][h]) =>
                    getHours(usage'[getDateKey(now')][h].firstAccess) >= 6
          /\ \A d \in DOMAIN usage' : \A h \in RecordsOf(usage', d) :
                (FirstSet(usage'[d][h]) /\ usage'[d][h].lastAccess # None) =>
                    usage'[d][h].firstAccess <= usage'[d][h].lastAccess
          /\ (/\ ev'.op = "recordUsage"
              /\ ev'.host \in RecordsOf(usage, getDateKey(now))
              /\ FirstSet(usage[getDateKey(now)][ev'.host])) =>
                usage'[getDateKey(now)][ev'.host].firstAccess
                    = usage[getDateKey(now)][ev'.host].firstAccess ]_vars

\* usage recorded before 6am has left the day's record without a firstAccess,
\* while the record of the day before keeps the firstAccess of its first report
\* after a later one
C37_Witness ==
    /\ engine = "v4"
    /\ ev.op = "recordUsage"
    /\ getHours(now) < 6
    /\ ev.host \in RecordsOf(usage, getDateKey(now))
    /\ ~FirstSet(usage[getDateKey(now)][ev.host])
    /\ usage[getDateKey(now)][ev.host].lastAccess = now
    /\ \E d \in DOMAIN usage : \E h \in RecordsOf(usage, d) :
          /\ FirstSet(usage[d][h])
          /\ usage[d][h].firstAccess < usage[d][h].lastAccess

\* C38: the session-expiry alarm handler never removes a session whose
\* expiresAt > now, also when the alarm's event is delivered late, after a
\* startSession that replaced the session under the same key.
C38_LiveSessionNotRevoked ==
    [][ ev'.op = "alarmSession" => ~liveEntry(ev'.host, now) ]_vars

\* C39: each second of visible time the content script accumulates is added to
\* the engine's usage total for the host at most once, also when the save of a
\* recordUsage fails.
C39_SecondsCountedOnce ==
    tracker.total <= tracker.accumulatedSeconds

\* C40: in the content script lastReportedSeconds never exceeds
\* accumulatedSeconds, and the seconds sent in acknowledged recordUsage
\* messages never sum to more than accumulatedSeconds, for every interleaving
\* of the periodic report and the visibility-change flush.
C40_ReportedWithinAccumulated ==
    /\ tracker.lastReportedSeconds <= tracker.accumulatedSeconds
    /\ tracker.acked <= tracker.accumulatedSeconds

=============================================================================
